---- MODULE Spec2Model ----
(***************************************************************************)
(* A model of stormware's authentication managers, Auth (stormware/auth.py) *)
(* and GCPAuth (stormware/google/auth.py), and of its connectors:           *)
(* ClientManager, SecretManager, Drive and Gmail.download_attachment.       *)
(*                                                                          *)
(* Strings are sequences of one-character strings, so that str.replace,     *)
(* f-strings and Path.with_suffix are computed and not assumed.  Python's   *)
(* None is the one-element sequence None below, which no string equals.     *)
(***************************************************************************)
EXTENDS Integers, Sequences, FiniteSets, TLC

VARIABLES
    self,             \* the object the calls are made on: the GCPAuth object's
                      \* constructor fields (auth.py:60-66), or the fields of the
                      \* ClientManager, SecretManager, Drive or Gmail object
    pyproject,        \* what pyproject.toml configures (tool.stormware, project.name)
    selfCredentials,  \* GCPAuth._credentials, the in-memory cache (auth.py:67)
    secrets,          \* Secret Manager: project ID -> key -> versions of the secret
    files,            \* the local files the program reads and writes
    clients,          \* the client objects create_client() has produced
    drive,            \* Google Drive: the entries of the drives, in creation order
    world,            \* what lies outside the program and it never writes
    calls,            \* how many credentials() calls were made
    returned,         \* per cache key, the object credentials() returned last since
                      \* the last clear_cache() (history, not read by the program)
    last              \* the last call made on the object and what it did

vars == <<self, pyproject, selfCredentials, secrets, files, clients, drive, world, calls,
          returned, last>>

----
\* Bounds of the model.

\* The longest organization or project name drawn as an input of SpecNames.
MaxLen == 2

\* The number of credentials() calls made on the object in Spec.
MaxCalls == 2

----
\* Python values.

None == <<"<None>">>

Chars == {"a", ".", "-"}

\* Python truthiness of an Optional[str]: None and '' are false.
Truthy(s) == s # None /\ s # <<>>

\* Python's `a or b`.
Or(a, b) == IF Truthy(a) THEN a ELSE b

\* str.replace(old, new) for one-character old and new.
Replace(s, old, new) == [i \in DOMAIN s |-> IF s[i] = old THEN new ELSE s[i]]

\* An assignment to a local variable: the value is computed once, then the rest
\* of the function runs with it.
Let(value, Rest(_)) == CHOOSE result \in {Rest(v) : v \in {value}} : TRUE

Ok(v) == [ok |-> TRUE, val |-> v, err |-> "-"]

Raise(e) == [ok |-> FALSE, val |-> None, err |-> e]

----
\* Auth (stormware/auth.py) and the name methods of GCPAuth.

\* tool_config('stormware').get('organization')
ToolConfigOrganization == pyproject.organization

\* Auth.organization
organization(obj, arg) ==
    LET org == Or(Or(arg, obj.organization), ToolConfigOrganization)
    IN  IF ~Truthy(org) THEN Raise("ValueError: You must provide an organization")
        ELSE Ok(org)

\* Auth.organization_id replacing only the first dot (str.replace(old, new, 1)).
organization_id_first_dot(obj, arg) ==
    LET org == organization(obj, arg)
        dots == {i \in DOMAIN org.val : org.val[i] = "."}
    IN  IF ~org.ok THEN org
        ELSE Ok([i \in DOMAIN org.val |->
                    IF i \in dots /\ \A j \in dots : i <= j THEN "-" ELSE org.val[i]])

\* Auth.organization_id
organization_id(obj, arg) ==
    LET org == organization(obj, arg)
    IN  IF org.ok THEN Ok(Replace(org.val, ".", "-")) ELSE org

\* GCPAuth.project with project.name of pyproject.toml tried before
\* tool.stormware.project.
project_name_first(obj, arg) ==
    LET p == Or(Or(Or(arg, obj.project), pyproject.name), pyproject.project)
    IN  IF ~Truthy(p) THEN Raise("ValueError: You must provide a project")
        ELSE Ok(p)

\* GCPAuth.project
project(obj, arg) ==
    LET p == Or(Or(Or(arg, obj.project), pyproject.project), pyproject.name)
    IN  IF ~Truthy(p) THEN Raise("ValueError: You must provide a project")
        ELSE Ok(p)

\* GCPAuth.project_id: the f-string evaluates project() first.
project_id(obj, orgArg, projArg) ==
    LET p == project(obj, projArg)
        o == organization_id(obj, orgArg)
    IN  IF ~p.ok THEN p
        ELSE IF ~o.ok THEN o
        ELSE Ok(p.val \o <<"-">> \o o.val)

----
\* Files, credentials objects and their JSON form.

Range(seq) == {seq[i] : i \in DOMAIN seq}

\* The suffix of the credential files: '.json'.
JsonSuffix == <<".", "json">>

\* PurePath.with_suffix on a file name: the part from the last dot on is
\* replaced when that dot is neither the first nor the last character.
WithSuffix(name, suffix) ==
    LET dots == {i \in DOMAIN name : name[i] = "."}
        lastDot == IF dots = {} THEN 0 ELSE CHOOSE i \in dots : \A j \in dots : j <= i
    IN  IF 1 < lastDot /\ lastDot < Len(name)
        THEN SubSeq(name, 1, lastDot - 1) \o suffix
        ELSE name \o suffix

\* xdg_config_home() / 'gcloud' / 'credentials'
GcloudCredentialsDir == <<"gcloud/", "credentials/">>

\* xdg_config_home() / 'stormware/google'
LocalConfigDir == <<"stormware/", "google/">>

\* GCPAuth.credentials_path built from the organization name, dots kept.
credentials_path_by_name(obj, orgArg, gcloud) ==
    LET org == organization(obj, orgArg)
        path == GcloudCredentialsDir \o WithSuffix(org.val, JsonSuffix)
    IN  IF ~org.ok THEN org
        ELSE IF path \in DOMAIN gcloud THEN Ok(path) ELSE Ok(None)

\* GCPAuth.credentials_path: the path if the file exists, else None.
credentials_path(obj, orgArg, gcloud) ==
    LET oid == organization_id(obj, orgArg)
        path == GcloudCredentialsDir \o WithSuffix(oid.val, JsonSuffix)
    IN  IF ~oid.ok THEN oid
        ELSE IF path \in DOMAIN gcloud THEN Ok(path) ELSE Ok(None)

ScopeOpenId == "openid"
ScopeEmail == "https://www.googleapis.com/auth/userinfo.email"
ScopeCloud == "https://www.googleapis.com/auth/cloud-platform"
ScopeSheets == "https://www.googleapis.com/auth/spreadsheets"
ScopeDrive == "https://www.googleapis.com/auth/drive"
ScopeGmail == "https://www.googleapis.com/auth/gmail.readonly"
\* A scope that is not one of GCPAuth.SCOPES.
ScopeOther == "https://www.googleapis.com/auth/calendar"

\* GCPAuth.SCOPES
SCOPES == <<ScopeOpenId, ScopeEmail, ScopeCloud, ScopeSheets, ScopeDrive, ScopeGmail>>

DEFAULT_OAUTH_CREDENTIALS_KEY == <<"stormware-google-oauth-credentials">>

DEFAULT_OAUTH_CLIENT_SECRETS_KEY == <<"stormware-google-oauth-client-secrets">>

\* A credentials object.  id is the object's identity: the number of the call
\* that built it, whose GCPAuth built it, and as what.  attr tells whether the
\* object has a scopes attribute ("absent"), has it set to None ("none") or to
\* the set scopes ("set").
Cred(id, kind, attr, scopes, token, quota, source, email) ==
    [id |-> id, kind |-> kind, attr |-> attr, scopes |-> scopes, token |-> token,
     quota |-> quota, source |-> source, email |-> email]

NoId == <<0, "-", "-">>

NoCred == Cred(NoId, "none", "absent", {}, <<"-", 0>>, None, NoId, None)

\* A JSON document: authorized-user info, client secrets, or (JsonNone) Python's
\* None where a document is expected.
Json(t, token, attr, scopes) == [t |-> t, token |-> token, attr |-> attr, scopes |-> scopes]

JsonNone == Json("None", <<"-", 0>>, "absent", {})

ClientSecretsJson == Json("client_secrets", <<"client", 0>>, "absent", {})

\* The empty string where a document is expected.
JsonEmpty == Json("empty", <<"-", 0>>, "absent", {})

\* Python truthiness of an Optional[str] holding a document.
JsonTruthy(j) == j \notin {JsonNone, JsonEmpty}

CredOk(c) == [ok |-> TRUE, val |-> c, err |-> "-"]

CredRaise(e) == [ok |-> FALSE, val |-> NoCred, err |-> e]

JsonOk(j) == [ok |-> TRUE, val |-> j, err |-> "-"]

JsonRaise(e) == [ok |-> FALSE, val |-> JsonNone, err |-> e]

\* OAuth2Credentials.from_authorized_user_info(json.loads(...)): a new object
\* with the token and the scopes of the document.
from_authorized_user_info(info, id) ==
    IF info.t # "authorized_user" THEN CredRaise("ValueError: not authorized user info")
    ELSE CredOk(Cred(id, "authorized_user", info.attr, info.scopes, info.token,
                     None, NoId, None))

\* Credentials.to_json: the token and the scopes; not the object's identity,
\* its quota project or its ID token.
to_json(c) == Json("authorized_user", c.token, c.attr, c.scopes)

\* getattr(credentials, 'scopes', None) or []
GetattrScopes(c) == IF c.attr = "set" THEN c.scopes ELSE {}

\* The scope check looking at the first requested scope only.
MissingScopes_first_only(c, scopes_tuple) ==
    IF scopes_tuple # <<>> /\ scopes_tuple[1] \notin GetattrScopes(c)
    THEN <<scopes_tuple[1]>>
    ELSE <<>>

\* The requested scopes that the credentials do not have (auth.py:288-291).
MissingScopes(c, scopes_tuple) ==
    SelectSeq(scopes_tuple, LAMBDA sc : sc \notin GetattrScopes(c))

\* logikal_utils.operators.unique: the first occurrences, in order.
RECURSIVE unique(_)
unique(seq) ==
    IF seq = <<>> THEN <<>>
    ELSE LET front == unique(SubSeq(seq, 1, Len(seq) - 1))
             x == seq[Len(seq)]
         IN  IF x \in Range(front) THEN front ELSE Append(front, x)

\* GCPAuth._all_scopes
_all_scopes(obj, scopes) ==
    IF Truthy(obj.oauth_user_email)
    THEN unique(<<ScopeOpenId, ScopeEmail>> \o (IF Truthy(scopes) THEN scopes ELSE <<>>))
    ELSE scopes

----
\* SecretManager (stormware/google/secrets.py) over the Secret Manager service.
\* A secret is the sequence of its versions, oldest first; a version is
\* [data, state].  env.missing is the error the service answers for a secret
\* that does not exist or has no version: PermissionDenied or NotFound,
\* depending on the caller's IAM roles.

SecretExists(sec, pid, key) == pid \in DOMAIN sec /\ key \in DOMAIN sec[pid]

SecretVersions(sec, pid, key) == IF SecretExists(sec, pid, key) THEN sec[pid][key] ELSE <<>>

WithVersions(sec, pid, key, versions) ==
    LET store == IF pid \in DOMAIN sec THEN sec[pid] ELSE <<>>
    IN  (pid :> ((key :> versions) @@ store)) @@ sec

\* The access reading the oldest version instead of the latest.
access_secret_version_oldest(sec, pid, key, env) ==
    LET versions == SecretVersions(sec, pid, key)
    IN  IF versions = <<>> THEN JsonRaise(env.missing)
        ELSE IF versions[1].state # "ENABLED" THEN JsonRaise("FailedPrecondition")
        ELSE JsonOk(versions[1].data)

\* SecretManagerServiceClient.access_secret_version of version 'latest'.
access_secret_version(sec, pid, key, env) ==
    LET versions == SecretVersions(sec, pid, key)
    IN  IF versions = <<>> THEN JsonRaise(env.missing)
        ELSE IF versions[Len(versions)].state # "ENABLED" THEN JsonRaise("FailedPrecondition")
        ELSE JsonOk(versions[Len(versions)].data)

\* SecretManager.__getitem__
__getitem__(sec, pid, key, env) == access_secret_version(sec, pid, key, env)

\* SecretManager.get
get(sec, pid, key, default, env) ==
    Let(__getitem__(sec, pid, key, env), LAMBDA r :
        IF ~r.ok /\ r.err \in {"PermissionDenied", "FailedPrecondition"}
        THEN JsonOk(default)
        ELSE r)

\* SecretManager.__contains__
__contains__(sec, pid, key, env) ==
    IF SecretExists(sec, pid, key) THEN [ok |-> TRUE, val |-> TRUE, err |-> "-"]
    ELSE IF env.missing \in {"PermissionDenied", "FailedPrecondition"}
    THEN [ok |-> TRUE, val |-> FALSE, err |-> "-"]
    ELSE [ok |-> FALSE, val |-> FALSE, err |-> env.missing]

\* The destruction passing over the versions that are not ENABLED.
_destroy_versions_enabled_only(versions, skip) ==
    [i \in DOMAIN versions |->
        IF i \notin skip /\ versions[i].state = "ENABLED"
        THEN [versions[i] EXCEPT !.state = "DESTROYED"]
        ELSE versions[i]]

\* SecretManager._destroy_versions, run to its end: every version that is not
\* skipped and not yet DESTROYED is destroyed.
_destroy_versions(versions, skip) ==
    [i \in DOMAIN versions |->
        IF i \notin skip /\ versions[i].state # "DESTROYED"
        THEN [versions[i] EXCEPT !.state = "DESTROYED"]
        ELSE versions[i]]

\* The comparison that never finds the value unchanged.
SameValue_never(current, value) == FALSE

\* `self.get(key) == value` (secrets.py:95)
SameValue(current, value) == current = value

\* SecretManager.__setitem__, run to its end: [ok, err, sec].
__setitem__(sec, pid, key, value, destroy_old_versions, env) ==
    Let(get(sec, pid, key, JsonNone, env), LAMBDA current :
        IF ~current.ok THEN [ok |-> FALSE, err |-> current.err, sec |-> sec]
        ELSE IF SameValue(current.val, value) THEN [ok |-> TRUE, err |-> "-", sec |-> sec]
        ELSE IF ~SecretExists(sec, pid, key)
        THEN [ok |-> FALSE, err |-> env.missing, sec |-> sec]
        ELSE Let(Append(SecretVersions(sec, pid, key),
                        [data |-> value, state |-> "ENABLED"]), LAMBDA added :
                 [ok |-> TRUE, err |-> "-",
                  sec |-> WithVersions(sec, pid, key,
                              IF destroy_old_versions
                              THEN _destroy_versions(added, {Len(added)})
                              ELSE added)]))

----
\* GCPAuth.credentials (stormware/google/auth.py).  env is what the call finds
\* outside the program: the files under $XDG_CONFIG_HOME/gcloud/credentials
\* (gcloud), what google.auth.default() yields (adc), sys.stdin.isatty() (tty),
\* the e-mail claim of the ID token the OAuth flow obtains (email), the
\* service's error for a missing secret (missing), and whether
\* impersonated credentials expose their target scopes as scopes (impScopes).

\* self._config.get('service_account') read from tool.stormware instead of
\* tool.stormware.google, where it is never set.
ServiceAccount_top_level(obj) == None

\* self._config.get('service_account') (auth.py:273)
ServiceAccount(obj) == obj.config.service_account

\* impersonated_credentials.Credentials on the file's credentials.
Impersonated(source, pid, env, n, who) ==
    Cred(<<n, who, "impersonated">>, "impersonated",
         IF env.impScopes THEN "set" ELSE "none", Range(SCOPES),
         <<"impersonated", 0>>, pid, source.id, None)

\* google.auth.default()[0]
Default(env, n, who) ==
    Cred(<<n, who, "default">>, "default", env.adc.attr, env.adc.scopes,
         <<"default", 0>>, None, NoId, None)

\* Lines 264-285 for the GCPAuth obj: the organization file's credentials,
\* impersonated if a service account is configured, else the default
\* credentials.  [res, trace]; who tells whose GCPAuth runs the lines.
BaseCredentials(obj, orgArg, projVal, env, n, who) ==
    Let(credentials_path(obj, orgArg, env.gcloud), LAMBDA path :
        IF ~path.ok THEN [res |-> CredRaise(path.err), trace |-> <<>>]
        ELSE IF path.val = None
        THEN IF ~env.adc.ok
             THEN [res |-> CredRaise("DefaultCredentialsError"),
                   trace |-> <<who \o ":default">>]
             ELSE [res |-> CredOk(Default(env, n, who)), trace |-> <<who \o ":default">>]
        ELSE Let(project_id(obj, orgArg, projVal), LAMBDA pid :
             IF ~pid.ok THEN [res |-> CredRaise(pid.err), trace |-> <<who \o ":file">>]
             ELSE Let(from_authorized_user_info(env.gcloud[path.val],
                                                <<n, who, "file">>), LAMBDA file :
                  IF ~file.ok THEN [res |-> file, trace |-> <<who \o ":file">>]
                  ELSE IF Truthy(ServiceAccount(obj))
                  THEN [res |-> CredOk(Impersonated(file.val, pid.val, env, n, who)),
                        trace |-> <<who \o ":file", who \o ":impersonate">>]
                  ELSE [res |-> CredOk([file.val EXCEPT !.quota = pid.val]),
                        trace |-> <<who \o ":file">>])))

\* SecretManager.__init__ with organization and project: the GCPAuth it builds.
SecretManagerAuth(orgArg, projVal) ==
    [organization |-> orgArg, project |-> projVal, oauth_user_email |-> None,
     ignore_cached_oauth_credentials |-> FALSE, config |-> pyproject.google]

\* SecretManager.create_client: credentials() without arguments on the
\* SecretManager's own GCPAuth, whose cache is empty; no scopes are requested,
\* so lines 288-299 do nothing.
create_client(auth, env, n) ==
    Let(organization_id(auth, None), LAMBDA oid :
        IF ~oid.ok THEN [res |-> CredRaise(oid.err), trace |-> <<>>]
        ELSE Let(project(auth, None), LAMBDA proj :
             IF ~proj.ok THEN [res |-> CredRaise(proj.err), trace |-> <<>>]
             ELSE BaseCredentials(auth, None, proj.val, env, n, "sm")))

\* The lookup that prefers the local cache file to the secret.
_get_cached_oauth_credentials_local_first(sec, pid, fls, oauth_credentials_key, local_credentials_path, env, n) ==
    IF local_credentials_path \in DOMAIN fls
    THEN [res |-> from_authorized_user_info(fls[local_credentials_path], <<n, "self", "local">>),
          trace |-> <<"local.exists", "local.read">>]
    ELSE Let(get(sec, pid, oauth_credentials_key, JsonNone, env), LAMBDA inSecrets :
        IF ~inSecrets.ok
        THEN [res |-> CredRaise(inSecrets.err), trace |-> <<"local.exists", "secrets.get">>]
        ELSE IF JsonTruthy(inSecrets.val)
        THEN [res |-> from_authorized_user_info(inSecrets.val, <<n, "self", "secret">>),
              trace |-> <<"local.exists", "secrets.get">>]
        ELSE [res |-> CredOk(NoCred), trace |-> <<"local.exists", "secrets.get">>])

\* GCPAuth._get_cached_oauth_credentials: [res, trace]; NoCred is None.
_get_cached_oauth_credentials(sec, pid, fls, oauth_credentials_key, local_credentials_path, env, n) ==
    Let(get(sec, pid, oauth_credentials_key, JsonNone, env), LAMBDA inSecrets :
        IF ~inSecrets.ok
        THEN [res |-> CredRaise(inSecrets.err), trace |-> <<"secrets.get">>]
        ELSE IF JsonTruthy(inSecrets.val)
        THEN [res |-> from_authorized_user_info(inSecrets.val, <<n, "self", "secret">>),
              trace |-> <<"secrets.get">>]
        ELSE IF local_credentials_path \in DOMAIN fls
        THEN [res |-> from_authorized_user_info(fls[local_credentials_path],
                                                <<n, "self", "local">>),
              trace |-> <<"secrets.get", "local.exists", "local.read">>]
        ELSE [res |-> CredOk(NoCred), trace |-> <<"secrets.get", "local.exists">>])

\* What a credentials() call yields: the result, the steps taken, and the
\* secrets and files it leaves.
Outcome(res, trace, sec, fls, smProject) ==
    [res |-> res, trace |-> trace, sec |-> sec, fls |-> fls, smProject |-> smProject]

\* self._config.get(name, default), None standing for a key that is not set.
ConfigGet(value, default) == IF value = None THEN default ELSE value

\* The e-mail check skipped.
EmailMismatch_unchecked(obj, flow) == FALSE

\* Lines 190-201: the ID token's e-mail claim differs from oauth_user_email.
EmailMismatch(obj, flow) ==
    Truthy(obj.oauth_user_email) /\ flow.email # obj.oauth_user_email

\* Lines 203-215: the obtained credentials are cached in the secret if it
\* exists, else in the local file, and returned.
CacheCredentials(sec, fls, pid, oauth_credentials_key, local_credentials_path, flow, env, trace) ==
    Let(__contains__(sec, pid, oauth_credentials_key, env), LAMBDA exists :
        IF ~exists.ok
        THEN Outcome(CredRaise(exists.err), trace \o <<"secrets.contains">>, sec, fls, pid)
        ELSE IF ~exists.val
        THEN Outcome(CredOk(flow), trace \o <<"secrets.contains", "local.write">>, sec,
                     (local_credentials_path :> to_json(flow)) @@ fls, pid)
        ELSE Let(__setitem__(sec, pid, oauth_credentials_key, to_json(flow), TRUE, env),
                 LAMBDA set :
                 IF ~set.ok
                 THEN Outcome(CredRaise(set.err),
                              trace \o <<"secrets.contains", "secrets.set">>, sec, fls, pid)
                 ELSE Outcome(CredOk(flow),
                              trace \o <<"secrets.contains", "secrets.set">>,
                              set.sec, fls, pid)))

\* get_user_credentials(scopes=self._all_scopes(scopes), ...): the credentials
\* the OAuth flow obtains, env.email the e-mail claim of their ID token.
Flow(obj, scopes, env, n) ==
    Let(_all_scopes(obj, scopes), LAMBDA all :
        Cred(<<n, "self", "flow">>, "authorized_user", "set",
             IF Truthy(all) THEN Range(all) ELSE {}, <<"flow", n>>,
             None, NoId, env.email))

\* Lines 171-201 of GCPAuth._get_scoped_credentials: the OAuth flow, then the
\* caching of the credentials it obtains.
ExecuteOAuthFlow(obj, sec, fls, n, pid, scopes, oauth_credentials_key, local_credentials_path, oauth_client_secrets_key, env, trace) ==
    IF ~env.tty
    THEN Outcome(CredRaise("RuntimeError: User authentication is required but this is not an interactive session"),
                 trace \o <<"isatty">>, sec, fls, pid)
    ELSE Let(__getitem__(sec, pid,
                         Or(oauth_client_secrets_key,
                            ConfigGet(obj.config.oauth_client_secrets_key,
                                      DEFAULT_OAUTH_CLIENT_SECRETS_KEY)), env),
             LAMBDA client_secrets :
         IF ~client_secrets.ok
         THEN Outcome(CredRaise(client_secrets.err),
                      trace \o <<"isatty", "client_secrets">>, sec, fls, pid)
         ELSE IF client_secrets.val.t # "client_secrets"
         THEN Outcome(CredRaise("KeyError: client_id"),
                      trace \o <<"isatty", "client_secrets">>, sec, fls, pid)
         ELSE Let(Flow(obj, scopes, env, n), LAMBDA flow :
              Let(trace \o <<"isatty", "client_secrets", "flow">>
                      \o (IF Truthy(obj.oauth_user_email) THEN <<"verify_email">> ELSE <<>>),
                  LAMBDA t :
                  IF EmailMismatch(obj, flow)
                  THEN Outcome(CredRaise("RuntimeError: Invalid email address"),
                               t, sec, fls, pid)
                  ELSE CacheCredentials(sec, fls, pid, oauth_credentials_key,
                                        local_credentials_path, flow, env, t))))

\* Cached OAuth credentials looked for whatever the constructor said.
LookForCached_always(obj) == TRUE

\* Line 163: cached OAuth credentials are looked for unless they are ignored.
LookForCached(obj) == ~obj.ignore_cached_oauth_credentials

\* Lines 156-215 of GCPAuth._get_scoped_credentials, inside the SecretManager
\* opened for project ID pid.
WithSecretManager(obj, sec, fls, n, pid, scopes, keyArg, secretsKeyArg, env, trace) ==
    Let(Or(keyArg, ConfigGet(obj.config.oauth_credentials_key,
                             DEFAULT_OAUTH_CREDENTIALS_KEY)),
        LAMBDA oauth_credentials_key :
    Let(LocalConfigDir \o oauth_credentials_key \o JsonSuffix,
        LAMBDA local_credentials_path :
        IF ~LookForCached(obj)
        THEN ExecuteOAuthFlow(obj, sec, fls, n, pid, scopes, oauth_credentials_key,
                              local_credentials_path, secretsKeyArg, env, trace)
        ELSE Let(_get_cached_oauth_credentials(sec, pid, fls, oauth_credentials_key,
                                               local_credentials_path, env, n),
                 LAMBDA cached :
                 IF ~cached.res.ok \/ cached.res.val # NoCred
                 THEN Outcome(cached.res, trace \o cached.trace, sec, fls, pid)
                 ELSE Let(trace \o cached.trace, LAMBDA t :
                      ExecuteOAuthFlow(obj, sec, fls, n, pid, scopes,
                                       oauth_credentials_key, local_credentials_path,
                                       secretsKeyArg, env, t)))))

\* GCPAuth._get_scoped_credentials: SecretManager(organization=organization,
\* project=project) gets the arguments of the call (line 155), builds its own
\* GCPAuth, reads its project ID and, entered, creates its client.
_get_scoped_credentials(obj, sec, fls, n, orgArg, projVal, scopes, keyArg, secretsKeyArg, env, trace) ==
    Let(SecretManagerAuth(orgArg, projVal), LAMBDA auth :
    Let(project_id(auth, None, None), LAMBDA pid :
        IF ~pid.ok
        THEN Outcome(CredRaise(pid.err), trace \o <<"SecretManager">>, sec, fls, None)
        ELSE Let(create_client(auth, env, n), LAMBDA client :
             Let(trace \o <<"SecretManager">> \o client.trace, LAMBDA t :
                 IF ~client.res.ok THEN Outcome(client.res, t, sec, fls, pid.val)
                 ELSE WithSecretManager(obj, sec, fls, n, pid.val, scopes, keyArg,
                                        secretsKeyArg, env, t)))))

\* tuple(scopes or [])
ScopesTuple(scopes) == IF Truthy(scopes) THEN scopes ELSE <<>>

\* The cache keyed by the organization as passed, not by the resolved ID.
CacheKey_by_argument(obj, orgArg, projArg, scopes) ==
    <<orgArg, project(obj, projArg).val, ScopesTuple(scopes)>>

\* The key of the in-memory cache (auth.py:251-253, 260).
CacheKey(obj, orgArg, projArg, scopes) ==
    <<organization_id(obj, orgArg).val, project(obj, projArg).val, ScopesTuple(scopes)>>

\* credentials() dropping the in-memory cache where it stores nothing.
Keep_cleared(out, cache, base) == [out |-> out, cache |-> <<>>, base |-> base]

\* credentials() returning or raising with the in-memory cache as it was.
Keep(out, cache, base) == [out |-> out, cache |-> cache, base |-> base]

\* Lines 301-302: the credentials are stored under the key and returned.
Store(out, cache, key, base) ==
    [out |-> [out EXCEPT !.trace = @ \o <<"cache.store">>],
     cache |-> (key :> out.res.val) @@ cache, base |-> base]

\* GCPAuth.credentials: the outcome, the cache it leaves, and (base) the
\* credentials lines 264-285 obtained, NoCred if they were not reached.
credentials(obj, cache, sec, fls, n, orgArg, projArg, scopes, keyArg, secretsKeyArg, env) ==
    Let(organization_id(obj, orgArg), LAMBDA oid :
        IF ~oid.ok
        THEN Keep(Outcome(CredRaise(oid.err), <<>>, sec, fls, None), cache, NoCred)
        ELSE Let(project(obj, projArg), LAMBDA proj :
        IF ~proj.ok
        THEN Keep(Outcome(CredRaise(proj.err), <<>>, sec, fls, None), cache, NoCred)
        ELSE Let(CacheKey(obj, orgArg, projArg, scopes), LAMBDA key :
        IF key \in DOMAIN cache
        THEN Keep(Outcome(CredOk(cache[key]), <<"cache.hit">>, sec, fls, None),
                  cache, NoCred)
        ELSE Let(BaseCredentials(obj, orgArg, proj.val, env, n, "self"), LAMBDA base :
        IF ~base.res.ok
        THEN Keep(Outcome(base.res, base.trace, sec, fls, None), cache, NoCred)
        ELSE IF MissingScopes(base.res.val, ScopesTuple(scopes)) = <<>>
        THEN Store(Outcome(base.res, base.trace, sec, fls, None), cache, key,
                   base.res.val)
        ELSE Let(_get_scoped_credentials(obj, sec, fls, n, orgArg, proj.val, scopes,
                                         keyArg, secretsKeyArg, env,
                                         base.trace \o <<"missing_scopes">>),
                 LAMBDA scoped :
                 IF scoped.res.ok THEN Store(scoped, cache, key, base.res.val)
                 ELSE Keep(scoped, cache, base.res.val))))))

----
\* Spec: credentials() and clear_cache() called on one GCPAuth object.

OrgDotted == <<"a", ".", "b">>
OrgPlain == <<"c">>
ProjectArg == <<"p">>
ProjectSelf == <<"q">>
ProjectName == <<"s">>
UserEmail == <<"u">>
OtherEmail == <<"v">>

PathDotted == GcloudCredentialsDir \o <<"a", "-", "b", ".", "json">>
PathPlain == GcloudCredentialsDir \o <<"c", ".", "json">>

InfoPlain == Json("authorized_user", <<"gcloud", 1>>, "none", {})
InfoScoped == Json("authorized_user", <<"gcloud", 2>>, "set", {ScopeDrive})
InfoCached == Json("authorized_user", <<"cached", 1>>, "set", {ScopeDrive})
InfoLocal == Json("authorized_user", <<"cached", 2>>, "set", {ScopeDrive, ScopeOther})

ProjectIds ==
    {p \o <<"-">> \o o : p \in {ProjectArg, ProjectSelf, ProjectName},
                         o \in {<<"a", "-", "b">>, <<"c">>}}

LocalPath == LocalConfigDir \o DEFAULT_OAUTH_CREDENTIALS_KEY \o JsonSuffix

NoGoogleConfig ==
    [service_account |-> None, oauth_credentials_key |-> None,
     oauth_client_secrets_key |-> None]

\* Every project's Secret Manager holds the same secrets at the start.
SecretStores(credentialExists, credentialVersions, clientSecrets) ==
    [pid \in ProjectIds |->
        (IF ~credentialExists THEN <<>>
         ELSE (DEFAULT_OAUTH_CREDENTIALS_KEY :> credentialVersions))
        @@ (IF clientSecrets
            THEN (DEFAULT_OAUTH_CLIENT_SECRETS_KEY :>
                      <<[data |-> ClientSecretsJson, state |-> "ENABLED"]>>)
            ELSE <<>>)]

Setup(s, py, sec, fls, w) ==
    [self |-> s, pyproject |-> py, secrets |-> sec, files |-> fls, world |-> w]

Self(org, proj, email, ignore, google) ==
    [organization |-> org, project |-> proj, oauth_user_email |-> email,
     ignore_cached_oauth_credentials |-> ignore, config |-> google]

Pyproject(org, proj, name, google) ==
    [organization |-> org, project |-> proj, name |-> name, google |-> google]

World(gcloud, adc, missing, impScopes) ==
    [gcloud |-> gcloud, adc |-> adc, missing |-> missing, impScopes |-> impScopes]

AdcNone == [ok |-> FALSE, attr |-> "absent", scopes |-> {}]
AdcUnscoped == [ok |-> TRUE, attr |-> "none", scopes |-> {}]
AdcAnonymous == [ok |-> TRUE, attr |-> "absent", scopes |-> {}]
AdcScoped == [ok |-> TRUE, attr |-> "set", scopes |-> {ScopeDrive}]

\* Which credentials are there: organization files, default credentials, a
\* configured service account.
SetupsSources ==
    {Setup(Self(None, None, None, FALSE, g.google),
           Pyproject(OrgDotted, None, ProjectName, g.google),
           SecretStores(FALSE, <<>>, TRUE), <<>>,
           World(gc, adc, "PermissionDenied", g.imp)) :
        g \in {[google |-> NoGoogleConfig, imp |-> FALSE],
               [google |-> [NoGoogleConfig EXCEPT !.service_account = <<"sa">>],
                imp |-> FALSE],
               [google |-> [NoGoogleConfig EXCEPT !.service_account = <<"sa">>],
                imp |-> TRUE]},
        gc \in {(PathDotted :> InfoPlain), (PathDotted :> InfoScoped),
                (PathDotted :> InfoScoped) @@ (PathPlain :> InfoPlain)},
        adc \in {AdcNone, AdcAnonymous, AdcScoped}}

\* Where the organization and the project come from.
SetupsNames ==
    {Setup(Self(org, proj, None, FALSE, NoGoogleConfig),
           Pyproject(cfgOrg, None, name, NoGoogleConfig),
           SecretStores(TRUE, <<>>, TRUE), <<>>,
           World((PathPlain :> InfoPlain), AdcUnscoped, "PermissionDenied", FALSE)) :
        org \in {None, OrgPlain},
        proj \in {None, ProjectSelf},
        cfgOrg \in {None, OrgDotted},
        name \in {None, ProjectName}}

CachedVersions ==
    {[exists |-> FALSE, versions |-> <<>>],
     [exists |-> TRUE, versions |-> <<>>],
     [exists |-> TRUE, versions |-> <<[data |-> InfoCached, state |-> "ENABLED"]>>],
     [exists |-> TRUE, versions |-> <<[data |-> InfoCached, state |-> "DISABLED"]>>],
     [exists |-> TRUE, versions |-> <<[data |-> JsonEmpty, state |-> "ENABLED"]>>]}

OAuthSetup(email, ignore, cv, cs, fls, missing) ==
    Setup(Self(None, None, email, ignore, NoGoogleConfig),
          Pyproject(OrgDotted, None, ProjectName, NoGoogleConfig),
          SecretStores(cv.exists, cv.versions, cs), fls,
          World(<<>>, AdcUnscoped, missing, FALSE))

\* What the OAuth path finds: cached credentials in Secret Manager and in the
\* local file, client secrets, the flags of the constructor, and a service
\* that answers NotFound for a missing secret.
SetupsOAuth ==
    {OAuthSetup(email, ignore, cv, TRUE, fls, "PermissionDenied") :
        email \in {None, UserEmail}, ignore \in BOOLEAN, cv \in CachedVersions,
        fls \in {<<>>, (LocalPath :> InfoLocal)}}
    \cup
    {OAuthSetup(None, ignore, cv, cs, <<>>, "NotFound") :
        ignore \in BOOLEAN, cs \in BOOLEAN,
        cv \in {c \in CachedVersions : c.versions = <<>>}}
    \cup
    {OAuthSetup(None, ignore, [exists |-> FALSE, versions |-> <<>>], FALSE, <<>>,
                "PermissionDenied") : ignore \in BOOLEAN}

InitFrom(setups) ==
    \E s \in setups :
        /\ self = s.self
        /\ pyproject = s.pyproject
        /\ secrets = s.secrets
        /\ files = s.files
        /\ world = s.world
        /\ selfCredentials = <<>>
        /\ clients = <<>>
        /\ drive = <<>>
        /\ calls = 0
        /\ returned = <<>>
        /\ last = [op |-> "init"]

Init == InitFrom(SetupsSources \cup SetupsNames)

InitOAuth == InitFrom(SetupsOAuth)

OrgArgs == {None, OrgDotted, OrgPlain}
ProjectArgs == {None, ProjectArg}
ScopeArgs == {None, <<ScopeDrive>>, <<ScopeDrive, ScopeOther>>}

\* What a call asks for, in the words of the documentation: the first
\* non-empty of the argument, the constructor value and the configuration.
FirstTruthy(seq) ==
    LET idx == {i \in DOMAIN seq : Truthy(seq[i])}
    IN  IF idx = {} THEN None
        ELSE seq[CHOOSE i \in idx : \A j \in idx : i <= j]

DashForDot(str) == [i \in DOMAIN str |-> IF str[i] = "." THEN "-" ELSE str[i]]

RequestOrganizationId(orgArg) ==
    DashForDot(FirstTruthy(<<orgArg, self.organization, pyproject.organization>>))

RequestProject(projArg) ==
    FirstTruthy(<<projArg, self.project, pyproject.project, pyproject.name>>)

RequestProjectId(orgArg, projArg) ==
    RequestProject(projArg) \o <<"-">> \o RequestOrganizationId(orgArg)

\* (organization ID, project, tuple of requested scopes) of a call.
RequestKey(orgArg, projArg, scopes) ==
    <<RequestOrganizationId(orgArg), RequestProject(projArg),
      IF scopes = None THEN <<>> ELSE scopes>>

\* The e-mail claims the OAuth flow may come back with; the claim is read only
\* when oauth_user_email is set.
EmailClaims ==
    IF Truthy(self.oauth_user_email) THEN {UserEmail, OtherEmail} ELSE {UserEmail}

\* auth.credentials(organization=orgArg, project=projArg, scopes=scopes)
Credentials(orgArg, projArg, scopes, tty, email) ==
    /\ calls < MaxCalls
    /\ \E n \in {calls + 1}, key \in {RequestKey(orgArg, projArg, scopes)},
          env \in {[gcloud |-> world.gcloud, adc |-> world.adc,
                    missing |-> world.missing, impScopes |-> world.impScopes,
                    tty |-> tty, email |-> email]} :
       \E r \in {credentials(self, selfCredentials, secrets, files, n,
                             orgArg, projArg, scopes, None, None, env)} :
           /\ calls' = n
           /\ selfCredentials' = r.cache
           /\ secrets' = r.out.sec
           /\ files' = r.out.fls
           /\ returned' = IF r.out.res.ok THEN (key :> r.out.res.val) @@ returned
                          ELSE returned
           /\ last' = [op |-> "credentials", n |-> n, organization |-> orgArg,
                       project |-> projArg, scopes |-> scopes,
                       tty |-> IF "missing_scopes" \in Range(r.out.trace)
                               THEN (IF tty THEN "yes" ELSE "no") ELSE "unread",
                       email |-> IF "flow" \in Range(r.out.trace) THEN email ELSE None,
                       key |-> key, res |-> r.out.res, base |-> r.base,
                       trace |-> r.out.trace, smProject |-> r.out.smProject]
    /\ UNCHANGED <<self, pyproject, world, clients, drive>>

\* auth.clear_cache()
ClearCache ==
    /\ last.op # "clear_cache"
    /\ selfCredentials' = <<>>
    /\ returned' = <<>>
    /\ last' = [op |-> "clear_cache"]
    /\ UNCHANGED <<self, pyproject, secrets, files, world, calls, clients, drive>>

Next ==
    \/ \E orgArg \in OrgArgs, projArg \in ProjectArgs, scopes \in ScopeArgs,
          tty \in BOOLEAN, email \in EmailClaims :
           Credentials(orgArg, projArg, scopes, tty, email)
    \/ ClearCache

Spec == Init /\ [][Next]_vars

\* The same calls on the setups of the OAuth path, the project left to its default.
NextOAuth ==
    \/ \E orgArg \in OrgArgs, scopes \in ScopeArgs, tty \in BOOLEAN,
          email \in EmailClaims :
           Credentials(orgArg, None, scopes, tty, email)
    \/ ClearCache

SpecOAuth == InitOAuth /\ [][NextOAuth]_vars

----
\* SpecNames: the name methods called on objects built from bounded names.

Names == UNION {[1..n -> Chars] : n \in 0..MaxLen}

OptNames == Names \cup {None}

InitNames ==
    /\ self \in [organization : OptNames, project : {None, <<"a">>, <<".">>}]
    /\ pyproject \in [organization : {None, <<>>, <<"-">>, <<"a", ".">>},
                      project : {None, <<"-">>},
                      name : {None, <<>>, <<"a", "a">>}]
    /\ selfCredentials = <<>>
    /\ clients = <<>>
    /\ drive = <<>>
    /\ secrets = <<>>
    /\ files = <<>>
    /\ world = <<>>
    /\ calls = 0
    /\ returned = <<>>
    /\ last = [op |-> "init"]

CallOrganization(arg) ==
    /\ last' = [op |-> "organization", arg |-> arg, res |-> organization(self, arg)]
    /\ UNCHANGED <<self, pyproject, selfCredentials, secrets, files, world, calls, returned,
                   clients, drive>>

CallOrganizationId(arg) ==
    /\ last' = [op |-> "organization_id", arg |-> arg, res |-> organization_id(self, arg)]
    /\ UNCHANGED <<self, pyproject, selfCredentials, secrets, files, world, calls, returned,
                   clients, drive>>

CallProject(arg) ==
    /\ last' = [op |-> "project", arg |-> arg, res |-> project(self, arg)]
    /\ UNCHANGED <<self, pyproject, selfCredentials, secrets, files, world, calls, returned,
                   clients, drive>>

CallProjectId(orgArg, projArg) ==
    /\ last' = [op |-> "project_id", arg |-> projArg, orgArg |-> orgArg,
                res |-> project_id(self, orgArg, projArg)]
    /\ UNCHANGED <<self, pyproject, selfCredentials, secrets, files, world, calls, returned,
                   clients, drive>>

NextNames ==
    \/ \E arg \in OptNames : CallOrganization(arg)
    \/ \E arg \in OptNames : CallOrganizationId(arg)
    \/ \E arg \in {None, <<>>, <<"a">>, <<"-", ".">>} : CallProject(arg)
    \/ \E orgArg \in {None, <<".", ".">>}, projArg \in {None, <<"a">>} :
           CallProjectId(orgArg, projArg)

SpecNames == InitNames /\ [][NextNames]_vars

----
\* Claims about the name methods (checked under SpecNames).

\* C9: Auth.organization returns the call argument if it is non-empty, else the
\* constructor value if that is non-empty, else the organization configured under
\* tool.stormware, and raises ValueError('You must provide an organization') when
\* all three are empty; organization_id is that organization with every dot
\* replaced by a dash (same length, no dot left, every other character kept).
C9_OrganizationPrecedence ==
    last.op \in {"organization", "organization_id"} =>
        LET want == FirstTruthy(<<last.arg, self.organization, pyproject.organization>>)
        IN  /\ want = None =>
                /\ ~last.res.ok
                /\ last.res.err = "ValueError: You must provide an organization"
            /\ (want # None /\ last.op = "organization") =>
                /\ last.res.ok
                /\ last.res.val = want
            /\ (want # None /\ last.op = "organization_id") =>
                /\ last.res.ok
                /\ Len(last.res.val) = Len(want)
                /\ \A i \in 1..Len(want) :
                       /\ want[i] = "." => last.res.val[i] = "-"
                       /\ want[i] # "." => last.res.val[i] = want[i]

\* An organization ID taken from the configuration, in which a dot became a dash.
C9_Witness ==
    /\ last.op = "organization_id"
    /\ ~Truthy(last.arg)
    /\ ~Truthy(self.organization)
    /\ pyproject.organization = <<"a", ".">>
    /\ last.res.ok
    /\ last.res.val = <<"a", "-">>

\* C10: GCPAuth.project returns the call argument if non-empty, else the
\* constructor value, else tool.stormware.project, else project.name of
\* pyproject.toml, and raises ValueError('You must provide a project') when all
\* are empty; project_id is '{project}-{organization_id}' of the resolved project
\* and the resolved organization ID.
C10_ProjectPrecedence ==
    last.op \in {"project", "project_id"} =>
        LET want == FirstTruthy(<<last.arg, self.project, pyproject.project,
                                  pyproject.name>>)
            org == IF last.op = "project_id"
                   THEN FirstTruthy(<<last.orgArg, self.organization,
                                      pyproject.organization>>)
                   ELSE None
        IN  /\ want = None =>
                /\ ~last.res.ok
                /\ last.res.err = "ValueError: You must provide a project"
            /\ (want # None /\ last.op = "project") =>
                /\ last.res.ok
                /\ last.res.val = want
            /\ (want # None /\ last.op = "project_id" /\ org # None) =>
                /\ last.res.ok
                /\ Len(last.res.val) = Len(want) + 1 + Len(org)
                /\ SubSeq(last.res.val, 1, Len(want)) = want
                /\ last.res.val[Len(want) + 1] = "-"
                /\ \A i \in 1..Len(org) :
                       last.res.val[Len(want) + 1 + i] =
                           (IF org[i] = "." THEN "-" ELSE org[i])

\* A project ID built from project.name of pyproject.toml and a dotted
\* organization given in the call.
C10_Witness ==
    /\ last.op = "project_id"
    /\ ~Truthy(last.arg)
    /\ ~Truthy(self.project)
    /\ ~Truthy(pyproject.project)
    /\ pyproject.name = <<"a", "a">>
    /\ last.orgArg = <<".", ".">>
    /\ last.res.ok
    /\ last.res.val = <<"a", "a", "-", "-", "-">>

----
\* Claims about credentials() (checked under Spec and SpecOAuth).

\* The step is a credentials() call.
CallStep == calls' = calls + 1

Did(step) == step \in Range(last.trace)

Done(step) == step \in Range(last'.trace)

\* The call resolved its organization and project and missed the in-memory cache.
CacheMiss ==
    /\ last.op = "credentials"
    /\ last.key[1] # None
    /\ last.key[2] # None
    /\ last.trace # <<"cache.hit">>

\* The organization credentials file of the call exists.
OrganizationFile == GcloudCredentialsDir \o last.key[1] \o JsonSuffix

OrganizationFileExists == OrganizationFile \in DOMAIN world.gcloud

ServiceAccountConfigured == Truthy(pyproject.google.service_account)

ObjectOf(role) == <<last.n, "self", role>>

\* C1: once credentials() has returned for a key (organization ID, project,
\* scopes), every later call with that key returns the identical object from the
\* in-memory cache, taking no other step and leaving secrets and files alone,
\* until clear_cache(); the first call after clear_cache() does not hit the cache.
C1_CachedUntilCleared ==
    [][CallStep =>
        /\ last'.key \in DOMAIN returned =>
            /\ last'.res.ok
            /\ last'.res.val = returned[last'.key]
            /\ last'.trace = <<"cache.hit">>
            /\ secrets' = secrets
            /\ files' = files
        /\ last.op = "clear_cache" => ~Done("cache.hit")]_vars

\* A second call answered from the cache with the object the first call built
\* for scoped credentials.
C1_Witness ==
    /\ last.op = "credentials"
    /\ last.n = 2
    /\ last.trace = <<"cache.hit">>
    /\ last.scopes = <<ScopeDrive, ScopeOther>>
    /\ last.res.val.id[1] = 1

\* C2: on a cache miss that obtained credentials from the organization file,
\* impersonation or the default credentials, the OAuth path is entered if and
\* only if some requested scope is not among the scopes of those credentials
\* (no scopes attribute, or scopes None, count as no scopes); with no scopes
\* requested it is never entered.
C2_OAuthIffScopeMissing ==
    last.op = "credentials" =>
        LET has == IF last.base.attr = "set" THEN last.base.scopes ELSE {}
            wanted == IF last.scopes = None THEN {} ELSE Range(last.scopes)
        IN  /\ last.base # NoCred => (Did("missing_scopes") <=> ~(wanted \subseteq has))
            /\ wanted = {} => ~Did("missing_scopes")
            /\ Did("SecretManager") => Did("missing_scopes")

\* Credentials that carry the first requested scope but not the second one send
\* the call into the OAuth path.
C2_Witness ==
    /\ last.op = "credentials"
    /\ last.base.attr = "set"
    /\ last.scopes = <<ScopeDrive, ScopeOther>>
    /\ ScopeDrive \in last.base.scopes
    /\ Did("missing_scopes")

\* C3: on a cache miss the organization credentials file
\* gcloud/credentials/{organization_id}.json is loaded whenever it exists, with
\* quota project {project}-{organization_id}, and the default credentials are
\* then not consulted; they are consulted exactly when the file does not exist.
C3_OrganizationFileFirst ==
    CacheMiss =>
        /\ OrganizationFileExists =>
            /\ Did("self:file")
            /\ ~Did("self:default")
            /\ last.base.quota = last.key[2] \o <<"-">> \o last.key[1]
        /\ ~OrganizationFileExists =>
            /\ Did("self:default")
            /\ ~Did("self:file")

\* The file of a dotted organization, named in the call, is loaded.
C3_Witness ==
    /\ CacheMiss
    /\ last.organization = OrgDotted
    /\ OrganizationFileExists
    /\ Did("self:file")
    /\ last.base.quota = <<"s", "-", "a", "-", "b">>

\* C4 as stated: whenever a service account is configured and the organization
\* file exists, the returned credentials are the impersonated ones, and without
\* a service account the file credentials are returned.
C4_ReturnedAreImpersonated ==
    (CacheMiss /\ last.res.ok /\ OrganizationFileExists) =>
        /\ ServiceAccountConfigured => last.res.val.id = ObjectOf("impersonated")
        /\ ~ServiceAccountConfigured => last.res.val.id = ObjectOf("file")

\* C4: on a cache miss, the credentials obtained before the scope check are
\* impersonated credentials exactly when a service account is configured and
\* the organization file exists, built on the file credentials with target
\* scopes GCPAuth.SCOPES; default credentials are never wrapped, and without a
\* service account the file credentials are taken unwrapped.  They are the
\* credentials returned when no requested scope is missing from them.
C4_ImpersonationBeforeScopeCheck ==
    (CacheMiss /\ last.base # NoCred) =>
        /\ last.base.kind = "impersonated" <=>
               (ServiceAccountConfigured /\ OrganizationFileExists)
        /\ last.base.kind = "impersonated" =>
            /\ last.base.id = ObjectOf("impersonated")
            /\ last.base.source = ObjectOf("file")
            /\ last.base.scopes = Range(SCOPES)
        /\ (OrganizationFileExists /\ ~ServiceAccountConfigured) =>
               last.base.id = ObjectOf("file")
        /\ ~OrganizationFileExists => last.base.id = ObjectOf("default")
        /\ (last.res.ok /\ ~Did("missing_scopes")) => last.res.val = last.base

\* Impersonated credentials returned for a scope they carry.
C4_Witness ==
    /\ CacheMiss
    /\ last.res.ok
    /\ last.scopes = <<ScopeDrive>>
    /\ last.res.val.kind = "impersonated"
    /\ last.res.val.source = ObjectOf("file")

\* The latest version of the secret under the default OAuth credentials key.
LatestCached(sec, pid) ==
    LET versions == sec[pid][DEFAULT_OAUTH_CREDENTIALS_KEY]
    IN  versions[Len(versions)]

\* C5: after a successful OAuth flow (the flow ran and the e-mail check did not
\* reject it) the JSON of the obtained credentials is written to exactly one
\* place: to the secret under the OAuth credentials key if that secret existed
\* (the local file is untouched), else to the local file
\* stormware/google/{key}.json (Secret Manager is untouched); the credentials
\* returned are the ones written.
C5_CachedInOnePlace ==
    [][(CallStep /\ Done("flow")
            /\ last'.res.err # "RuntimeError: Invalid email address") =>
        LET pid == last'.smProject
            json == [t |-> "authorized_user", token |-> last'.res.val.token,
                     attr |-> last'.res.val.attr, scopes |-> last'.res.val.scopes]
        IN  /\ last'.res.ok
            /\ IF SecretExists(secrets, pid, DEFAULT_OAUTH_CREDENTIALS_KEY)
               THEN /\ Done("secrets.set") /\ ~Done("local.write")
                    /\ LatestCached(secrets', pid) = [data |-> json, state |-> "ENABLED"]
                    /\ files' = files
               ELSE /\ Done("local.write") /\ ~Done("secrets.set")
                    /\ LocalPath \in DOMAIN files'
                    /\ files'[LocalPath] = json
                    /\ secrets' = secrets]_vars

\* The call asks for a scope that neither the organization credentials nor the
\* default credentials carry.
ScopesInsufficient ==
    LET wanted == IF last.scopes = None THEN {} ELSE Range(last.scopes)
        info == world.gcloud[OrganizationFile]
        orgScopes == IF ~OrganizationFileExists THEN {}
                     ELSE IF ServiceAccountConfigured
                     THEN (IF world.impScopes THEN Range(SCOPES) ELSE {})
                     ELSE IF info.attr = "set" THEN info.scopes ELSE {}
        adcScopes == IF world.adc.ok /\ world.adc.attr = "set"
                     THEN world.adc.scopes ELSE {}
    IN  /\ last.key[1] # None
        /\ last.key[2] # None
        /\ ~(wanted \subseteq orgScopes)
        /\ ~(wanted \subseteq adcScopes)

C7_EmailMismatchStoresNothing ==
    [][CallStep =>
        /\ (Done("flow") /\ Truthy(self.oauth_user_email)
                /\ last'.email # self.oauth_user_email) =>
            /\ ~last'.res.ok
            /\ last'.res.err = "RuntimeError: Invalid email address"
        /\ last'.res.err = "RuntimeError: Invalid email address" =>
            /\ Done("flow")
            /\ secrets' = secrets
            /\ files' = files
            /\ selfCredentials' = selfCredentials]_vars

\* The flow came back with the wrong e-mail although the secret to cache the
\* credentials in exists.
C7_Witness ==
    /\ last.op = "credentials"
    /\ last.res.err = "RuntimeError: Invalid email address"
    /\ last.email = OtherEmail
    /\ self.oauth_user_email = UserEmail
    /\ SecretExists(secrets, last.smProject, DEFAULT_OAUTH_CREDENTIALS_KEY)

\* Cached OAuth credentials exist for the call's project: an enabled latest
\* version of the secret, or the local file.
CachedOAuthCredentialsExist ==
    LET pid == last.key[2] \o <<"-">> \o last.key[1]
        versions == SecretVersions(secrets, pid, DEFAULT_OAUTH_CREDENTIALS_KEY)
    IN  \/ (versions # <<>> /\ versions[Len(versions)].state = "ENABLED")
        \/ LocalPath \in DOMAIN files

\* C8: in the OAuth path the call raises RuntimeError('... not an interactive
\* session') if and only if the interactive flow has to run (cached OAuth
\* credentials are ignored, or there are none in Secret Manager and in the local
\* cache) and standard input is not a terminal.
C8_NonInteractiveIffFlowNeeded ==
    (last.op = "credentials" /\ Did("missing_scopes")) =>
        (last.res.err = "RuntimeError: User authentication is required but this is not an interactive session"
            <=> (/\ last.tty = "no"
                 /\ (self.ignore_cached_oauth_credentials
                        \/ ~CachedOAuthCredentialsExist)))

----
\* ClientManager (stormware/client_manager.py).  A client object is a record
\* [close, exit, truthy, closed, exited]: whether its class has close(), has
\* __exit__(), and whether bool(client) is true (a class with __bool__ or
\* __len__ may say no), and how often close() and __exit__() were called on it.
\* self._client is a reference into clients, ClientNone for None.  In SpecClient
\* returned is the stack of the open entries: the clients that create_client
\* returned to the __enter__ calls no __exit__ has matched yet.

\* The steps (__enter__, __exit__) made on one ClientManager in SpecClient.
MaxSteps == 4

ClientNone == 0

\* bool(self._client)
ClientTruthy(cs, ref) == ref # ClientNone /\ cs[ref].truthy

ClientOk(ref) == [ok |-> TRUE, val |-> ref, err |-> "-"]

ClientRaise(e) == [ok |-> FALSE, val |-> ClientNone, err |-> e]

\* ClientManager.client (the property)
client(obj, cs) ==
    IF ~ClientTruthy(cs, obj._client)
    THEN ClientRaise("RuntimeError: This class must be used as a context manager")
    ELSE ClientOk(obj._client)

\* create_client() of a manager whose clients are of class cls.
NewClient(cls) ==
    [close |-> cls.close, exit |-> cls.exit, truthy |-> cls.truthy,
     closed |-> 0, exited |-> 0]

\* ClientManager.__enter__: [obj, cs]
__enter__(obj, cs) ==
    [obj |-> [obj EXCEPT !._client = Len(cs) + 1],
     cs |-> Append(cs, NewClient(obj.client_class))]

\* ClientManager.__exit__: [res, cs]; every self.client is the property.
__exit__(obj, cs) ==
    Let(client(obj, cs), LAMBDA c :
        IF ~c.ok THEN [res |-> c, cs |-> cs]
        ELSE IF cs[c.val].close
        THEN [res |-> ClientOk(ClientNone), cs |-> [cs EXCEPT ![c.val].closed = @ + 1]]
        ELSE IF cs[c.val].exit
        THEN [res |-> ClientOk(ClientNone), cs |-> [cs EXCEPT ![c.val].exited = @ + 1]]
        ELSE [res |-> ClientRaise("RuntimeError: Invalid client type"), cs |-> cs])

\* The client classes: with close(), with __exit__(), with both, with neither,
\* and truthy or not.
ClientClasses == [close : BOOLEAN, exit : BOOLEAN, truthy : BOOLEAN]

InitClient ==
    /\ self \in [_client : {ClientNone}, client_class : ClientClasses]
    /\ clients = <<>>
    /\ calls = 0
    /\ last = [op |-> "init"]
    /\ pyproject = <<>>
    /\ selfCredentials = <<>>
    /\ secrets = <<>>
    /\ files = <<>>
    /\ drive = <<>>
    /\ world = <<>>
    /\ returned = <<>>

\* manager.client
GetClient ==
    /\ last' = [op |-> "client", res |-> client(self, clients)]
    /\ UNCHANGED <<self, clients, calls, pyproject, selfCredentials, secrets, files, drive,
                   world, returned>>

\* manager.__enter__()
Enter ==
    /\ calls < MaxSteps
    /\ \E r \in {__enter__(self, clients)} :
        /\ self' = r.obj
        /\ clients' = r.cs
        /\ last' = [op |-> "__enter__", res |-> ClientOk(r.obj._client)]
        /\ returned' = Append(returned, r.obj._client)
    /\ calls' = calls + 1
    /\ UNCHANGED <<pyproject, selfCredentials, secrets, files, drive, world>>

\* manager.__exit__(None, None, None), made by the with statement that made
\* the matching __enter__.
Exit ==
    /\ calls < MaxSteps
    /\ returned # <<>>
    /\ \E r \in {__exit__(self, clients)} :
        /\ clients' = r.cs
        /\ last' = [op |-> "__exit__", res |-> r.res]
    /\ returned' = SubSeq(returned, 1, Len(returned) - 1)
    /\ calls' = calls + 1
    /\ UNCHANGED <<self, pyproject, selfCredentials, secrets, files, drive, world>>

NextClient == GetClient \/ Enter \/ Exit

SpecClient == InitClient /\ [][NextClient]_vars

\* C11: ClientManager.client raises RuntimeError('This class must be used as a
\* context manager') as long as __enter__ has not been called on the manager
\* (no client was created); once it has been called, the property returns the
\* client the latest __enter__ created, also after __exit__.
C11_ClientOnceEntered ==
    last.op = "client" =>
        IF clients = <<>>
        THEN /\ ~last.res.ok
             /\ last.res.err = "RuntimeError: This class must be used as a context manager"
        ELSE /\ last.res.ok
             /\ last.res.val = Len(clients)

\* The step is an __exit__.
MatchedExit == calls' = calls + 1 /\ last'.op = "__exit__"

\* The client the matching __enter__ created.
Matching == returned[Len(returned)]

\* C22: an __exit__ closes the client that the matching __enter__ created, and
\* through exactly one mechanism: close() if the client has it, otherwise the
\* __exit__ of the client; for a client with neither, __exit__ raises
\* RuntimeError('Invalid client type') and closes nothing.
C22_ExitClosesTheMatchingClient ==
    [][MatchedExit =>
        IF clients[Matching].close
        THEN /\ last'.res.ok
             /\ clients' = [clients EXCEPT ![Matching].closed = @ + 1]
        ELSE IF clients[Matching].exit
        THEN /\ last'.res.ok
             /\ clients' = [clients EXCEPT ![Matching].exited = @ + 1]
        ELSE /\ ~last'.res.ok
             /\ last'.res.err = "RuntimeError: Invalid client type"
             /\ clients' = clients]_vars

\* C29: whenever every __enter__ made on the manager has been matched by an
\* __exit__, every client that create_client returned has been closed exactly
\* once (clients that can be closed: with close() or __exit__).
C29_EveryClientClosedOnce ==
    (returned = <<>> /\ clients # <<>> /\ (self.client_class.close \/ self.client_class.exit)) =>
        \A i \in DOMAIN clients : clients[i].closed + clients[i].exited = 1

----
\* SecretManager in use (stormware/google/secrets.py): one store object over
\* the secrets of its project.  secrets["key"] = value, secrets["key"],
\* secrets.get("key", default) and "key" in secrets are made one after the
\* other; the program has no call that creates or deletes a secret.

\* The number of writes made on the store in SpecSecrets.
MaxWrites == 2

\* self._project_id
SecretsProject == <<"a", "-", "a">>

SecretValue(n) == Json("secret", <<"value", n>>, "absent", {})

SecretValues == {SecretValue(1), SecretValue(2)}

\* The first key names a secret of the project, the second one names none.
SecretKeys == {<<"k">>, <<"n">>}

Version(data, state) == [data |-> data, state |-> state]

\* The versions the secret has when the store is constructed.
InitialVersions ==
    {<<>>,
     <<Version(SecretValue(1), "ENABLED")>>,
     <<Version(SecretValue(1), "DISABLED")>>,
     <<Version(SecretValue(1), "ENABLED"), Version(SecretValue(2), "DISABLED")>>,
     <<Version(SecretValue(2), "DISABLED"), Version(SecretValue(1), "ENABLED")>>,
     <<Version(SecretValue(1), "DESTROYED"), Version(SecretValue(2), "ENABLED")>>}

InitSecrets ==
    /\ self \in [project_id : {SecretsProject}, destroy_old_versions : BOOLEAN]
    /\ secrets \in {SecretsProject :> (<<"k">> :> versions) : versions \in InitialVersions}
    /\ world \in [missing : {"PermissionDenied", "NotFound"}]
    /\ pyproject = <<>>
    /\ selfCredentials = <<>>
    /\ files = <<>>
    /\ clients = <<>>
    /\ drive = <<>>
    /\ calls = 0
    /\ returned = <<>>
    /\ last = [op |-> "init"]

\* secrets[key] = value; returned keeps, per key, the value of the last write
\* that returned.
SetItem(key, value) ==
    /\ calls < MaxWrites
    /\ \E r \in {__setitem__(secrets, self.project_id, key, value, self.destroy_old_versions, world)} :
        /\ secrets' = r.sec
        /\ returned' = IF r.ok THEN (key :> value) @@ returned ELSE returned
        /\ last' = [op |-> "__setitem__", key |-> key, value |-> value,
                    before |-> SecretVersions(secrets, self.project_id, key),
                    res |-> [ok |-> r.ok, err |-> r.err]]
    /\ calls' = calls + 1
    /\ UNCHANGED <<self, pyproject, selfCredentials, files, clients, drive, world>>

\* secrets[key]
GetItem(key) ==
    /\ last' = [op |-> "__getitem__", key |-> key,
                res |-> __getitem__(secrets, self.project_id, key, world)]
    /\ UNCHANGED <<self, pyproject, selfCredentials, secrets, files, clients, drive, world,
                   calls, returned>>

\* secrets.get(key, default)
Get(key, default) ==
    /\ last' = [op |-> "get", key |-> key, default |-> default,
                res |-> get(secrets, self.project_id, key, default, world)]
    /\ UNCHANGED <<self, pyproject, selfCredentials, secrets, files, clients, drive, world,
                   calls, returned>>

\* key in secrets
Contains(key) ==
    /\ last' = [op |-> "__contains__", key |-> key,
                res |-> __contains__(secrets, self.project_id, key, world)]
    /\ UNCHANGED <<self, pyproject, selfCredentials, secrets, files, clients, drive, world,
                   calls, returned>>

NextSecrets ==
    \/ \E key \in SecretKeys, value \in SecretValues : SetItem(key, value)
    \/ \E key \in SecretKeys : GetItem(key)
    \/ \E key \in SecretKeys, default \in {JsonNone, SecretValue(0)} : Get(key, default)
    \/ \E key \in SecretKeys : Contains(key)

SpecSecrets == InitSecrets /\ [][NextSecrets]_vars

\* The versions of the secret named key.
VersionsOf(key) == SecretVersions(secrets, self.project_id, key)

\* The last call was secrets[key] = value, last.before being the versions of
\* the secret when it was made.
Wrote == last.op = "__setitem__"

\* The latest version there was when the write was made, if any.
LatestBefore == last.before[Len(last.before)]

C13_SameValueIsNoOp ==
    (Wrote /\ last.before # <<>> /\ LatestBefore.state # "DESTROYED"
           /\ LatestBefore.data = last.value) =>
        VersionsOf(last.key) = last.before

\* C13: setting a secret to the value its latest version holds is a no-op when
\* that version is ENABLED: the write returns, adds no version and destroys
\* none, whatever destroy_old_versions is.
C13_SameEnabledValueIsNoOp ==
    (Wrote /\ last.before # <<>> /\ LatestBefore.state = "ENABLED"
           /\ LatestBefore.data = last.value) =>
        /\ last.res.ok
        /\ VersionsOf(last.key) = last.before

\* A store that destroys old versions was set to the value of its enabled
\* latest version, and the older version is still not destroyed.
C13_Witness ==
    /\ Wrote
    /\ self.destroy_old_versions
    /\ Len(last.before) >= 2
    /\ LatestBefore.state = "ENABLED"
    /\ LatestBefore.data = last.value
    /\ last.before[1].state # "DESTROYED"
    /\ VersionsOf(last.key) = last.before

\* The write added a version to the secret.
AddedVersion == Wrote /\ Len(VersionsOf(last.key)) = Len(last.before) + 1

\* C14: when a write adds a version with destroy_old_versions=True, then on
\* return every other version of the secret is DESTROYED, the enabled and the
\* disabled ones alike, and the new version is not; with
\* destroy_old_versions=False a write destroys no version.
C14_DestroyOldVersions ==
    Wrote =>
        /\ AddedVersion =>
            /\ last.res.ok
            /\ VersionsOf(last.key)[Len(last.before) + 1] = Version(last.value, "ENABLED")
            /\ self.destroy_old_versions =>
                \A i \in DOMAIN last.before : VersionsOf(last.key)[i].state = "DESTROYED"
        /\ ~self.destroy_old_versions =>
            \A i \in DOMAIN last.before : VersionsOf(last.key)[i] = last.before[i]
        /\ ~AddedVersion => VersionsOf(last.key) = last.before

\* A write added a version to a secret that had an enabled and a disabled
\* version, on a store that destroys old versions.
C14_Witness ==
    /\ AddedVersion
    /\ self.destroy_old_versions
    /\ \E i \in DOMAIN last.before : last.before[i].state = "ENABLED"
    /\ \E i \in DOMAIN last.before : last.before[i].state = "DISABLED"
    /\ \A i \in DOMAIN last.before : VersionsOf(last.key)[i].state = "DESTROYED"
    /\ VersionsOf(last.key)[Len(last.before) + 1].state = "ENABLED"

\* C15: get(key, default) returns the secret's value when the secret exists
\* and the default when it does not, and `key in secrets` is True for a secret
\* that exists and False for one that does not; neither raises for a secret
\* that does not exist.
C15_MissingIsNotAnError ==
    /\ last.op = "get" =>
        /\ last.res.ok
        /\ ~SecretExists(secrets, self.project_id, last.key) => last.res.val = last.default
        /\ (/\ VersionsOf(last.key) # <<>>
            /\ VersionsOf(last.key)[Len(VersionsOf(last.key))].state = "ENABLED") =>
                last.res.val = VersionsOf(last.key)[Len(VersionsOf(last.key))].data
    /\ last.op = "__contains__" =>
        /\ last.res.ok
        /\ last.res.val = SecretExists(secrets, self.project_id, last.key)

----
\* Drive (stormware/google/drive.py) over the Google Drive service.  An entry
\* of drive is [name, parent, folder, trashed, deleted]; its file ID is its
\* index, its parent the file ID of a folder or the ID of a drive.  Trashing or
\* deleting a folder trashes or deletes what it holds.  A call works on
\* st = [d, cache, trace]: the entries, self._drive_id_cache and the API
\* requests made so far, and yields [st, ok, val, err].  env.shared gives, per
\* name, the IDs of the shared drives of that name.

\* The ID of the user's "My Drive" root folder.
RootId == 0

\* Python's None where a file ID is expected.
NoFileId == -99

Entry(name, parent, folder, trashed) == [name |-> name, parent |-> parent, folder |-> folder, trashed |-> trashed, deleted |-> FALSE]

\* DrivePath: path.drive and path.parts[1:].
DrivePath(drive_name, parts) == [drive |-> drive_name, parts |-> parts]

\* dst / name
Joined(path, name) == [path EXCEPT !.parts = Append(@, name)]

DriveOk(st, v) == [st |-> st, ok |-> TRUE, val |-> v, err |-> "-"]

DriveRaise(st, e) == [st |-> st, ok |-> FALSE, val |-> NoFileId, err |-> e]

\* One request to the service: the method, the file or parent ID, and for
\* files.list the name, mimeType and trashed terms of the query.
Api(method, id, name, folders, in_trash) == [api |-> method, id |-> id, name |-> name, folders |-> folders, in_trash |-> in_trash]

Called(st, request) == [st EXCEPT !.trace = Append(@, request)]

SharedDrivesNamed(env, name) == IF name \in DOMAIN env.shared THEN env.shared[name] ELSE <<>>

\* Drive._drive_id
_drive_id(st, name, env) ==
    IF name \in DOMAIN st.cache THEN DriveOk(st, st.cache[name])
    ELSE IF name # ""
    THEN Let(Called(st, Api("drives.list", NoFileId, name, "None", "None")), LAMBDA listed :
         Let(SharedDrivesNamed(env, name), LAMBDA drives :
             IF drives = <<>> THEN DriveRaise(listed, "RuntimeError: Shared drive not found")
             ELSE IF Len(drives) > 1
             THEN DriveRaise(listed, "RuntimeError: Shared drive name is not unique")
             ELSE DriveOk([listed EXCEPT !.cache = (name :> drives[1]) @@ @], drives[1])))
    ELSE Let(Called(st, Api("files.get", RootId, "", "None", "None")), LAMBDA got :
             DriveOk([got EXCEPT !.cache = ("" :> RootId) @@ @], RootId))

\* What files.list matches: the entries of the parent, of the name if one is
\* given, folders or not, trashed or not ("None": the term is left out).
Matches(e, parent_id, name, folders, in_trash) ==
    /\ ~e.deleted
    /\ e.parent = parent_id
    /\ name = "" \/ e.name = name
    /\ folders = "None" \/ e.folder = (folders = "True")
    /\ in_trash = "None" \/ e.trashed = (in_trash = "True")

\* Drive._file_ids: the IDs of the matching entries, all pages read.
_file_ids(st, parent_id, name, folders, in_trash) ==
    DriveOk(Called(st, Api("files.list", parent_id, name, folders, in_trash)),
            SelectSeq([i \in DOMAIN st.d |-> i],
                      LAMBDA i : Matches(st.d[i], parent_id, name, folders, in_trash)))

\* file_ids.get(name, []) on what _file_ids returned
IdsNamed(d, ids, name) == SelectSeq(ids, LAMBDA i : d[i].name = name)

\* The loop of Drive._file_id_by_path from the component at index on.
RECURSIVE FileIdLoop(_, _, _, _, _)
FileIdLoop(st, path, index, parent_id, in_trash) ==
    IF index > Len(path.parts) THEN DriveOk(st, parent_id)
    ELSE Let(_file_ids(st, parent_id, path.parts[index],
                       IF index < Len(path.parts) THEN "True" ELSE "None",
                       IF ~in_trash THEN "False"
                       ELSE IF index < Len(path.parts) THEN "None" ELSE "True"), LAMBDA found :
             IF found.val = <<>> THEN DriveOk(found.st, NoFileId)
             ELSE IF Len(found.val) > 1
             THEN DriveRaise(found.st, "RuntimeError: Name is not unique in path")
             ELSE FileIdLoop(found.st, path, index + 1, found.val[1], in_trash))

\* Drive._file_id_by_path
_file_id_by_path(st, path, in_trash, env) ==
    Let(_drive_id(st, path.drive, env), LAMBDA drive_id :
        IF ~drive_id.ok THEN drive_id
        ELSE FileIdLoop(drive_id.st, path, 1, drive_id.val, in_trash))

\* The entry and what it holds.
RECURSIVE IsUnder(_, _, _)
IsUnder(d, i, file_id) ==
    \/ i = file_id
    \/ d[i].parent \in DOMAIN d /\ IsUnder(d, d[i].parent, file_id)

\* Drive._remove_file: files.update(trashed=True) or files.delete.
_remove_file(st, file_id, use_trash) ==
    IF use_trash
    THEN DriveOk([Called(st, Api("files.update", file_id, "", "None", "True")) EXCEPT
                     !.d = [i \in DOMAIN st.d |->
                               IF IsUnder(st.d, i, file_id)
                               THEN [st.d[i] EXCEPT !.trashed = TRUE] ELSE st.d[i]]],
                 NoFileId)
    ELSE DriveOk([Called(st, Api("files.delete", file_id, "", "None", "None")) EXCEPT
                     !.d = [i \in DOMAIN st.d |->
                               IF IsUnder(st.d, i, file_id)
                               THEN [st.d[i] EXCEPT !.deleted = TRUE] ELSE st.d[i]]],
                 NoFileId)

\* The creation that makes every folder a child of the user's root folder.
_create_folder_in_root(st, name, parent_id) ==
    DriveOk([Called(st, Api("files.create", RootId, name, "True", "None")) EXCEPT
                !.d = Append(@, Entry(name, RootId, TRUE, FALSE))],
            Len(st.d) + 1)

\* Drive._create_folder
_create_folder(st, name, parent_id) ==
    DriveOk([Called(st, Api("files.create", parent_id, name, "True", "None")) EXCEPT
                !.d = Append(@, Entry(name, parent_id, TRUE, FALSE))],
            Len(st.d) + 1)

\* The loop of Drive._create_folder_at_path from the component at index on.
RECURSIVE CreateFolderLoop(_, _, _, _, _)
CreateFolderLoop(st, path, index, parent_id, create) ==
    IF index > Len(path.parts) THEN DriveOk(st, parent_id)
    ELSE IF create
    THEN Let(_create_folder(st, path.parts[index], parent_id), LAMBDA created :
             CreateFolderLoop(created.st, path, index + 1, created.val, TRUE))
    ELSE Let(_file_ids(st, parent_id, path.parts[index], "True", "False"), LAMBDA found :
             IF found.val = <<>>
             THEN Let(_create_folder(found.st, path.parts[index], parent_id), LAMBDA created :
                      CreateFolderLoop(created.st, path, index + 1, created.val, TRUE))
             ELSE IF Len(found.val) > 1
             THEN DriveRaise(found.st, "RuntimeError: Name is not unique in path")
             ELSE CreateFolderLoop(found.st, path, index + 1, found.val[1], FALSE))

\* Drive._create_folder_at_path
_create_folder_at_path(st, path, env) ==
    Let(_drive_id(st, path.drive, env), LAMBDA drive_id :
        IF ~drive_id.ok THEN drive_id
        ELSE CreateFolderLoop(drive_id.st, path, 1, drive_id.val, FALSE))

\* Drive._upload_file
_upload_file(st, name, parent_id) ==
    DriveOk([Called(st, Api("files.create", parent_id, name, "False", "None")) EXCEPT
                !.d = Append(@, Entry(name, parent_id, FALSE, FALSE))],
            NoFileId)

\* Drive._overwrite: the loop over file_ids.get(name, []) from position i on.
RECURSIVE _overwrite(_, _, _, _)
_overwrite(st, ids, i, overwrite) ==
    IF i > Len(ids) THEN DriveOk(st, NoFileId)
    ELSE IF ~overwrite THEN DriveRaise(st, "RuntimeError: File already exists")
    ELSE Let(_remove_file(st, ids[i], TRUE), LAMBDA removed :
             _overwrite(removed.st, ids, i + 1, overwrite))

\* The upload that looks for existing files only, not for folders.
_upload_file_to_path_files_only(st, src, dst, overwrite, env) ==
    Let(_create_folder_at_path(st, dst, env), LAMBDA parent_id :
        IF ~parent_id.ok THEN parent_id
        ELSE Let(_file_ids(parent_id.st, parent_id.val, src.name, "False", "False"), LAMBDA file_ids :
             Let(_overwrite(file_ids.st, IdsNamed(file_ids.st.d, file_ids.val, src.name), 1, overwrite), LAMBDA trashed :
                 IF ~trashed.ok THEN trashed
                 ELSE _upload_file(trashed.st, src.name, parent_id.val))))

\* Drive._upload_file_to_path
_upload_file_to_path(st, src, dst, overwrite, env) ==
    Let(_create_folder_at_path(st, dst, env), LAMBDA parent_id :
        IF ~parent_id.ok THEN parent_id
        ELSE Let(_file_ids(parent_id.st, parent_id.val, src.name, "None", "False"), LAMBDA file_ids :
             Let(_overwrite(file_ids.st, IdsNamed(file_ids.st.d, file_ids.val, src.name), 1, overwrite), LAMBDA trashed :
                 IF ~trashed.ok THEN trashed
                 ELSE _upload_file(trashed.st, src.name, parent_id.val))))

\* The loop over the filenames of one directory of src.walk(), from position
\* i on (drive.py:337-340); file_ids are the IDs listed before the first upload.
RECURSIVE UploadFilesLoop(_, _, _, _, _, _)
UploadFilesLoop(st, file_ids, filenames, i, parent_id, overwrite) ==
    IF i > Len(filenames) THEN DriveOk(st, NoFileId)
    ELSE Let(_overwrite(st, IdsNamed(st.d, file_ids, filenames[i]), 1, overwrite), LAMBDA trashed :
             IF ~trashed.ok THEN trashed
             ELSE Let(_upload_file(trashed.st, filenames[i], parent_id), LAMBDA uploaded :
                      UploadFilesLoop(uploaded.st, file_ids, filenames, i + 1, parent_id, overwrite)))

\* The loop over src.walk() from its j-th directory on (drive.py:328-340).
RECURSIVE WalkLoop(_, _, _, _, _, _)
WalkLoop(st, src, dst, j, overwrite, env) ==
    IF j > Len(src.walk) THEN DriveOk(st, NoFileId)
    ELSE Let(_create_folder_at_path(st, DrivePath(dst.drive, dst.parts \o <<src.name>> \o src.walk[j].rel), env), LAMBDA parent_id :
             IF ~parent_id.ok THEN parent_id
             ELSE Let(_file_ids(parent_id.st, parent_id.val, "", "None", "False"), LAMBDA file_ids :
                  Let(UploadFilesLoop(file_ids.st, file_ids.val, src.walk[j].filenames, 1, parent_id.val, overwrite), LAMBDA uploaded :
                      IF ~uploaded.ok THEN uploaded
                      ELSE WalkLoop(uploaded.st, src, dst, j + 1, overwrite, env))))

\* Drive._upload_folder_to_path
_upload_folder_to_path(st, src, dst, overwrite, env) ==
    IF dst.drive = "" THEN WalkLoop(st, src, dst, 1, overwrite, env)
    ELSE Let(_drive_id(st, dst.drive, env), LAMBDA drive_id :
             IF ~drive_id.ok THEN drive_id
             ELSE WalkLoop(drive_id.st, src, dst, 1, overwrite, env))

\* The check that never looks in the trash.
exists_not_in_trash(st, path, in_trash, env) ==
    Let(_file_id_by_path(st, path, FALSE, env), LAMBDA file_id :
        IF ~file_id.ok THEN file_id ELSE DriveOk(file_id.st, file_id.val # NoFileId))

\* Drive.exists: bool() of the file ID, which is None or a non-empty string.
exists(st, path, in_trash, env) ==
    Let(_file_id_by_path(st, path, in_trash, env), LAMBDA file_id :
        IF ~file_id.ok THEN file_id ELSE DriveOk(file_id.st, file_id.val # NoFileId))

\* Drive.mkdir
mkdir(st, path, env) ==
    Let(_create_folder_at_path(st, path, env), LAMBDA created :
        IF ~created.ok THEN created ELSE DriveOk(created.st, path))

\* The removal that looks the path up before it checks the request.
remove_lookup_first(st, path, missing_ok, use_trash, in_trash, env) ==
    Let(_file_id_by_path(st, path, in_trash, env), LAMBDA file_id :
        IF use_trash /\ in_trash
        THEN DriveRaise(file_id.st, "ValueError: The use_trash parameter cannot be used together with in_trash")
        ELSE IF Len(path.parts) + 1 < 2 THEN DriveRaise(file_id.st, "ValueError: Invalid path")
        ELSE IF ~file_id.ok THEN file_id
        ELSE IF file_id.val # NoFileId THEN _remove_file(file_id.st, file_id.val, use_trash)
        ELSE IF ~missing_ok THEN DriveRaise(file_id.st, "FileNotFoundError: No such file or folder")
        ELSE DriveOk(file_id.st, NoFileId))

\* Drive.remove
remove(st, path, missing_ok, use_trash, in_trash, env) ==
    IF use_trash /\ in_trash
    THEN DriveRaise(st, "ValueError: The use_trash parameter cannot be used together with in_trash")
    ELSE IF Len(path.parts) + 1 < 2 THEN DriveRaise(st, "ValueError: Invalid path")
    ELSE Let(_file_id_by_path(st, path, in_trash, env), LAMBDA file_id :
             IF ~file_id.ok THEN file_id
             ELSE IF file_id.val # NoFileId THEN _remove_file(file_id.st, file_id.val, use_trash)
             ELSE IF ~missing_ok THEN DriveRaise(file_id.st, "FileNotFoundError: No such file or folder")
             ELSE DriveOk(file_id.st, NoFileId))

\* Drive.upload; src is what the local path is: [kind, name, walk], walk being
\* what src.walk() yields for a directory, [rel, filenames] per directory.
upload(st, src, dst, overwrite, env) ==
    IF src.kind = "missing" THEN DriveRaise(st, "ValueError: Source path does not exist")
    ELSE IF src.kind \notin {"file", "dir"} THEN DriveRaise(st, "ValueError: Invalid source path")
    ELSE Let(IF src.kind = "file" THEN _upload_file_to_path(st, src, dst, overwrite, env)
             ELSE _upload_folder_to_path(st, src, dst, overwrite, env), LAMBDA uploaded :
             IF ~uploaded.ok THEN uploaded ELSE DriveOk(uploaded.st, Joined(dst, src.name)))

----
\* Drive in use: mkdir, remove and upload are called one after the other on
\* one Drive object inside its `with` block.

\* The number of calls made on the Drive object in SpecDrive.
MaxDriveCalls == 2

LocalSource(kind, name, walk) == [kind |-> kind, name |-> name, walk |-> walk]

\* The local paths an upload is given: a file, a directory holding a file and
\* a subdirectory of two files, no file at all, and a path that is neither a
\* file nor a directory.
LocalSources ==
    [file |-> LocalSource("file", "b", <<>>),
     dir |-> LocalSource("dir", "a", <<[rel |-> <<>>, filenames |-> <<"b">>],
                                       [rel |-> <<"a">>, filenames |-> <<"a", "b">>]>>),
     nothing |-> LocalSource("missing", "b", <<>>),
     socket |-> LocalSource("other", "b", <<>>)]

\* The shared drives there are: one named s, two named t, none named u.
SharedDrives == [s |-> <<-1>>, t |-> <<-2, -3>>]

\* The paths the calls are given.
DrivePaths ==
    {DrivePath("", parts) : parts \in {<<>>, <<"a">>, <<"b">>, <<"a", "b">>}}
        \cup {DrivePath(drive_name, <<"a">>) : drive_name \in {"s", "t", "u"}}

\* The flags remove() is given; missing_ok is not varied where the call is
\* rejected before the flag is read.
RemoveFlags ==
    {flags \in [missing_ok : BOOLEAN, use_trash : BOOLEAN, in_trash : BOOLEAN] :
        (flags.use_trash /\ flags.in_trash) => ~flags.missing_ok}

\* The source and the overwrite argument upload() is given; overwrite is not
\* varied for the sources that are rejected before it is read.
UploadArguments ==
    {given \in [src : DOMAIN LocalSources, overwrite : {"default", "True", "False"}] :
        given.src \notin {"file", "dir"} => given.overwrite = "default"}

\* What the drives hold when the Drive object is constructed.
InitialDrives ==
    {<<>>,
     <<Entry("a", RootId, TRUE, FALSE)>>,
     <<Entry("a", RootId, TRUE, FALSE), Entry("b", 1, TRUE, FALSE)>>,
     <<Entry("a", RootId, TRUE, FALSE), Entry("a", RootId, TRUE, FALSE)>>,
     <<Entry("a", RootId, TRUE, TRUE), Entry("b", 1, TRUE, TRUE)>>,
     <<Entry("a", RootId, FALSE, FALSE)>>,
     <<Entry("a", RootId, TRUE, FALSE), Entry("b", 1, FALSE, FALSE)>>,
     <<Entry("a", RootId, TRUE, FALSE), Entry("b", 1, FALSE, FALSE), Entry("b", 1, FALSE, FALSE)>>,
     <<Entry("a", RootId, TRUE, FALSE), Entry("b", 1, FALSE, TRUE), Entry("b", 1, TRUE, FALSE)>>,
     <<Entry("a", -1, TRUE, FALSE), Entry("b", 1, FALSE, FALSE)>>}

InitDrive ==
    /\ self = [_drive_id_cache |-> <<>>]
    /\ drive \in InitialDrives
    /\ files = LocalSources
    /\ world = [shared |-> SharedDrives]
    /\ pyproject = <<>>
    /\ selfCredentials = <<>>
    /\ secrets = <<>>
    /\ clients = <<>>
    /\ calls = 0
    /\ returned = <<>>
    /\ last = [op |-> "init"]

\* The state a call starts from, and what it leaves behind: the entries, the
\* drive ID cache, and in last the entries before the call, its outcome and
\* the API requests it made.
DriveCall == [d |-> drive, cache |-> self._drive_id_cache, trace |-> <<>>]

DriveDone(op, args, r) ==
    /\ drive' = r.st.d
    /\ self' = [self EXCEPT !._drive_id_cache = r.st.cache]
    /\ last' = [op |-> op, args |-> args, before |-> drive, ok |-> r.ok, val |-> r.val,
                err |-> r.err, trace |-> r.st.trace]
    /\ calls' = calls + 1
    /\ UNCHANGED <<pyproject, selfCredentials, secrets, files, clients, world, returned>>

Mkdir(path) ==
    /\ calls < MaxDriveCalls
    /\ \E r \in {mkdir(DriveCall, path, world)} : DriveDone("mkdir", [path |-> path], r)

Remove(path, missing_ok, use_trash, in_trash) ==
    /\ calls < MaxDriveCalls
    /\ \E r \in {remove(DriveCall, path, missing_ok, use_trash, in_trash, world)} :
        DriveDone("remove", [path |-> path, missing_ok |-> missing_ok, use_trash |-> use_trash,
                             in_trash |-> in_trash], r)

Exists(path, in_trash) ==
    /\ calls < MaxDriveCalls
    /\ \E r \in {exists(DriveCall, path, in_trash, world)} :
        DriveDone("exists", [path |-> path, in_trash |-> in_trash], r)

\* upload(src, dst, overwrite); "default" stands for the call that passes no
\* overwrite argument, for which the parameter takes its default True.
Upload(src, dst, overwrite) ==
    /\ calls < MaxDriveCalls
    /\ \E r \in {upload(DriveCall, files[src], dst, overwrite \in {"default", "True"}, world)} :
        DriveDone("upload", [src |-> files[src], dst |-> dst, overwrite |-> overwrite], r)

NextDrive ==
    \/ \E path \in DrivePaths : Mkdir(path)
    \/ \E path \in DrivePaths, in_trash \in BOOLEAN : Exists(path, in_trash)
    \/ \E path \in DrivePaths, flags \in RemoveFlags :
        Remove(path, flags.missing_ok, flags.use_trash, flags.in_trash)
    \/ \E given \in UploadArguments, dst \in DrivePaths : Upload(given.src, dst, given.overwrite)

SpecDrive == InitDrive /\ [][NextDrive]_vars

----
\* Claims about Drive.

\* The shared drive of the path is known and unique, or the path is in the
\* user's drive; DriveIdOf is then the ID of the drive.
DriveKnown(path) == path.drive = "" \/ Len(SharedDrivesNamed(world, path.drive)) = 1

DriveIdOf(path) == IF path.drive = "" THEN RootId ELSE SharedDrivesNamed(world, path.drive)[1]

\* The non-trashed folders of the name in the parent.
FoldersNamed(d, parent_id, name) ==
    {i \in DOMAIN d : ~d[i].deleted /\ d[i].parent = parent_id /\ d[i].name = name
                      /\ d[i].folder /\ ~d[i].trashed}

\* How far the path resolves in d from the component at index on: n is the
\* number of leading components that each are exactly one non-trashed folder,
\* parent the ID of the last of them, and many tells that the next component
\* names more than one non-trashed folder.
RECURSIVE Resolve(_, _, _, _)
Resolve(d, path, index, parent_id) ==
    IF index > Len(path.parts) THEN [n |-> index - 1, parent |-> parent_id, many |-> FALSE]
    ELSE LET folders == FoldersNamed(d, parent_id, path.parts[index])
         IN  IF Cardinality(folders) = 1
             THEN Resolve(d, path, index + 1, CHOOSE i \in folders : TRUE)
             ELSE [n |-> index - 1, parent |-> parent_id, many |-> folders # {}]

\* The folders mkdir is to append to d for the components after the n-th.
MissingSuffix(d, path, n, parent_id) ==
    [k \in 1..(Len(path.parts) - n) |->
        Entry(path.parts[n + k], IF k = 1 THEN parent_id ELSE Len(d) + k - 1, TRUE, FALSE)]

\* The requests of the call to the method.
Requests(method) == SelectSeq(last.trace, LAMBDA request : request.api = method)

\* No files.list request follows a files.create request.
NoLookupAfterCreate ==
    \A i, j \in DOMAIN last.trace :
        (i < j /\ last.trace[i].api = "files.create") => last.trace[j].api # "files.list"

\* What mkdir does where no component is ambiguous: nothing on a path that
\* resolves, else the missing suffix, without lookups after the first
\* missing component.
MkdirCreatesMissingSuffix(found) ==
    /\ last.ok
    /\ drive = last.before \o MissingSuffix(last.before, last.args.path, found.n, found.parent)
    /\ Len(Requests("files.create")) = Len(last.args.path.parts) - found.n
    /\ Len(Requests("files.list")) =
           IF found.n = Len(last.args.path.parts) THEN found.n ELSE found.n + 1
    /\ NoLookupAfterCreate
    /\ Resolve(drive, last.args.path, 1, DriveIdOf(last.args.path)).n = Len(last.args.path.parts)

Candidates(d, parent_id, name, is_last, in_trash) ==
    {i \in DOMAIN d : /\ ~d[i].deleted /\ d[i].parent = parent_id /\ d[i].name = name
                      /\ is_last \/ d[i].folder
                      /\ IF in_trash THEN is_last => d[i].trashed ELSE ~d[i].trashed}

\* What the path resolves to in d from the component at index on: "one" entry
\* (id), "none" where a component has no candidate, "many" where it has more
\* than one.
RECURSIVE Lookup(_, _, _, _, _)
Lookup(d, path, index, parent_id, in_trash) ==
    IF index > Len(path.parts) THEN [kind |-> "one", id |-> parent_id]
    ELSE LET found == Candidates(d, parent_id, path.parts[index],
                                 index = Len(path.parts), in_trash)
         IN  IF found = {} THEN [kind |-> "none", id |-> NoFileId]
             ELSE IF Cardinality(found) > 1 THEN [kind |-> "many", id |-> NoFileId]
             ELSE Lookup(d, path, index + 1, CHOOSE i \in found : TRUE, in_trash)

\* The path of the call did not resolve when the call was made: its drive is
\* there and one of its components had no candidate.
DidNotResolve ==
    /\ DriveKnown(last.args.path)
    /\ Lookup(last.before, last.args.path, 1, DriveIdOf(last.args.path),
              last.args.in_trash).kind = "none"

UploadedFileIntoFolder ==
    /\ last.op = "upload"
    /\ last.args.src.kind = "file"
    /\ DriveKnown(last.args.dst)
    /\ Resolve(last.before, last.args.dst, 1, DriveIdOf(last.args.dst)).n = Len(last.args.dst.parts)

DstFolder == Resolve(last.before, last.args.dst, 1, DriveIdOf(last.args.dst)).parent

\* The non-trashed entries of the name in the folder.
EntriesNamed(d, parent_id, name) ==
    {i \in DOMAIN d : ~d[i].deleted /\ d[i].parent = parent_id /\ d[i].name = name /\ ~d[i].trashed}

\* The entries of the uploaded file's name the destination folder held.
Existing == EntriesNamed(last.before, DstFolder, last.args.src.name)

\* Every files.update request of the call precedes its upload.
TrashedBeforeUpload ==
    \A i, j \in DOMAIN last.trace :
        (last.trace[i].api = "files.update" /\ last.trace[j].api = "files.create") => i < j

C19_OverwriteFalseSkips ==
    (UploadedFileIntoFolder /\ Existing # {}) =>
        /\ last.args.overwrite = "False" =>
            /\ last.ok
            /\ \A i \in Existing : drive[i] = last.before[i]
        /\ last.args.overwrite = "default" =>
            /\ ~last.ok
            /\ last.err = "FileExistsError: File already exists"

----
\* Gmail.download_attachment (stormware/google/gmail.py) over the local file
\* system.  A local path is the sequence of its components, files maps the
\* paths that exist to [kind, bytes], and env.attachments gives, per
\* attachment ID, the data of the response of attachments().get(): the
\* characters of its URL-safe base64 text.

\* The number of download_attachment() calls made in SpecGmail.
MaxDownloads == 2

\* The home directory of the user.
Home == <<<<"h">>>>

\* Path.expanduser
expanduser(path) == IF path # <<>> /\ path[1] = <<"~">> THEN Home \o Tail(path) ELSE path

Dir == [kind |-> "dir", bytes |-> <<>>]

File(bytes) == [kind |-> "file", bytes |-> bytes]

\* The value of a character of the URL-safe base64 alphabet.
B64Value(c) ==
    CASE c = "A" -> 0 [] c = "I" -> 8 [] c = "Q" -> 16 [] c = "U" -> 20
      [] c = "-" -> 62 [] c = "_" -> 63 [] c = "=" -> 0

\* The bytes of one group of four characters: three, or two or one where the
\* group is padded.
B64Group(g) ==
    LET b1 == (B64Value(g[1]) * 4 + B64Value(g[2]) \div 16) % 256
        b2 == ((B64Value(g[2]) % 16) * 16 + B64Value(g[3]) \div 4) % 256
        b3 == ((B64Value(g[3]) % 4) * 64 + B64Value(g[4])) % 256
    IN  IF g[3] = "=" THEN <<b1>> ELSE IF g[4] = "=" THEN <<b1, b2>> ELSE <<b1, b2, b3>>

RECURSIVE B64Bytes(_)
B64Bytes(data) ==
    IF data = <<>> THEN <<>> ELSE B64Group(SubSeq(data, 1, 4)) \o B64Bytes(SubSeq(data, 5, Len(data)))

\* base64.urlsafe_b64decode: text whose length is no multiple of four is
\* rejected for its padding.
urlsafe_b64decode(data) ==
    IF Len(data) % 4 # 0 THEN [ok |-> FALSE, val |-> <<>>, err |-> "binascii.Error: Incorrect padding"]
    ELSE [ok |-> TRUE, val |-> B64Bytes(data), err |-> "-"]

\* A download in progress: the file system, whether the attachment was
\* fetched, and the outcome.
Download(fs, fetched, ok, val, err) == [fs |-> fs, fetched |-> fetched, ok |-> ok, val |-> val, err |-> err]

\* Path.mkdir(parents=True, exist_ok=True): an error where the path or one
\* of its parents is a file, else fs with the missing directories.
mkdir_parents(fs, path) ==
    IF \E n \in 1..Len(path) : SubSeq(path, 1, n) \in DOMAIN fs /\ fs[SubSeq(path, 1, n)].kind # "dir"
    THEN [ok |-> FALSE, fs |-> fs,
          err |-> IF path \in DOMAIN fs THEN "FileExistsError" ELSE "NotADirectoryError"]
    ELSE [ok |-> TRUE, err |-> "-",
          fs |-> [p \in DOMAIN fs \cup {SubSeq(path, 1, n) : n \in 1..Len(path)} |->
                     IF p \in DOMAIN fs THEN fs[p] ELSE Dir]]

\* Path.write_bytes
write_bytes(fs, path, bytes) ==
    IF path \in DOMAIN fs /\ fs[path].kind = "dir"
    THEN [ok |-> FALSE, fs |-> fs, err |-> "IsADirectoryError"]
    ELSE [ok |-> TRUE, fs |-> (path :> File(bytes)) @@ fs, err |-> "-"]

\* The download that fetches the attachment before it looks at the file.
download_attachment_fetch_first(fs, attachment, dst, filename, overwrite, env) ==
    Let(Append(dst, Or(filename, attachment.filename)), LAMBDA dst_path :
    Let(expanduser(dst_path), LAMBDA dst_full_path :
        IF dst_full_path \in DOMAIN fs /\ overwrite = "None"
        THEN Download(fs, TRUE, FALSE, dst_path, "FileExistsError: Destination file already exists")
        ELSE IF dst_full_path \in DOMAIN fs /\ overwrite = "False"
        THEN Download(fs, TRUE, TRUE, dst_path, "-")
        ELSE Let(mkdir_parents(fs, expanduser(dst)), LAMBDA made :
             IF ~made.ok THEN Download(made.fs, TRUE, FALSE, dst_path, made.err)
             ELSE Let(urlsafe_b64decode(env.attachments[attachment.id]), LAMBDA decoded :
                  IF ~decoded.ok THEN Download(made.fs, TRUE, FALSE, dst_path, decoded.err)
                  ELSE Let(write_bytes(made.fs, dst_full_path, decoded.val), LAMBDA written :
                       Download(written.fs, TRUE, written.ok, dst_path, written.err))))))

\* Gmail.download_attachment
download_attachment(fs, attachment, dst, filename, overwrite, env) ==
    Let(Append(dst, Or(filename, attachment.filename)), LAMBDA dst_path :
    Let(expanduser(dst_path), LAMBDA dst_full_path :
        IF dst_full_path \in DOMAIN fs /\ overwrite = "None"
        THEN Download(fs, FALSE, FALSE, dst_path, "FileExistsError: Destination file already exists")
        ELSE IF dst_full_path \in DOMAIN fs /\ overwrite = "False"
        THEN Download(fs, FALSE, TRUE, dst_path, "-")
        ELSE Let(mkdir_parents(fs, expanduser(dst)), LAMBDA made :
             IF ~made.ok THEN Download(made.fs, TRUE, FALSE, dst_path, made.err)
             ELSE Let(urlsafe_b64decode(env.attachments[attachment.id]), LAMBDA decoded :
                  IF ~decoded.ok THEN Download(made.fs, TRUE, FALSE, dst_path, decoded.err)
                  ELSE Let(write_bytes(made.fs, dst_full_path, decoded.val), LAMBDA written :
                       Download(written.fs, TRUE, written.ok, dst_path, written.err))))))

----
\* Gmail in use: download_attachment is called on one Gmail object inside
\* its `with` block.

Attachment(id, message_id, filename) == [id |-> id, message_id |-> message_id, filename |-> filename]

Attachments ==
    {Attachment("attachment_1", "message_1", <<"x">>),
     Attachment("attachment_2", "message_1", <<"y">>),
     Attachment("attachment_3", "message_2", <<"x">>)}

\* The data the service answers per attachment: the text of the bytes AB, of
\* three bytes that need the characters - and _, and a text cut short.
AttachmentData ==
    [attachment_1 |-> <<"Q", "U", "I", "=">>,
     attachment_2 |-> <<"-", "_", "-", "_">>,
     attachment_3 |-> <<"Q", "Q">>]

\* The local directories and files there are when the first call is made.
InitialFiles ==
    {(Home :> Dir),
     (Home :> Dir) @@ (<<<<"d">>>> :> Dir) @@ (<<<<"d">>, <<"x">>>> :> File(<<1>>))
        @@ (<<<<"d">>, <<"y">>>> :> Dir) @@ (<<<<"f">>>> :> File(<<2>>))
        @@ (Home \o <<<<"x">>>> :> File(<<3>>))}

\* The destination folders the calls are given.
Destinations == {<<<<"d">>>>, <<<<"n">>, <<"m">>>>, <<<<"f">>>>, <<<<"~">>>>}

InitGmail ==
    /\ self = [user_id |-> "me"]
    /\ files \in InitialFiles
    /\ world = [attachments |-> AttachmentData]
    /\ pyproject = <<>>
    /\ selfCredentials = <<>>
    /\ secrets = <<>>
    /\ clients = <<>>
    /\ drive = <<>>
    /\ calls = 0
    /\ returned = <<>>
    /\ last = [op |-> "init"]

DownloadAttachment(attachment, dst, filename, overwrite) ==
    /\ calls < MaxDownloads
    /\ \E r \in {download_attachment(files, attachment, dst, filename, overwrite, world)} :
        /\ files' = r.fs
        /\ last' = [op |-> "download_attachment",
                    args |-> [attachment |-> attachment, dst |-> dst, filename |-> filename,
                              overwrite |-> overwrite],
                    before |-> files, fetched |-> r.fetched, ok |-> r.ok, val |-> r.val,
                    err |-> r.err]
    /\ calls' = calls + 1
    /\ UNCHANGED <<self, pyproject, selfCredentials, secrets, clients, drive, world, returned>>

NextGmail ==
    \E attachment \in Attachments, dst \in Destinations, filename \in {None, <<>>, <<"x">>},
       overwrite \in {"None", "True", "False"} :
        DownloadAttachment(attachment, dst, filename, overwrite)

SpecGmail == InitGmail /\ [][NextGmail]_vars

\* The full path of the destination file of the last call.
DstFullPath ==
    expanduser(Append(last.args.dst, Or(last.args.filename, last.args.attachment.filename)))

\* C20: when the destination file already exists, download_attachment raises
\* FileExistsError with overwrite unset and returns the destination path with
\* overwrite=False, in both cases without fetching the attachment and leaving
\* the existing file as it is; the attachment is fetched, and the file
\* written, only when the file is absent or overwrite=True.
C20_ExistingFileIsNotFetched ==
    last.op = "download_attachment" =>
        /\ (DstFullPath \in DOMAIN last.before /\ last.args.overwrite = "None") =>
            /\ ~last.ok
            /\ last.err = "FileExistsError: Destination file already exists"
            /\ ~last.fetched
            /\ files = last.before
        /\ (DstFullPath \in DOMAIN last.before /\ last.args.overwrite = "False") =>
            /\ last.ok
            /\ last.val = Append(last.args.dst, Or(last.args.filename, last.args.attachment.filename))
            /\ ~last.fetched
            /\ files = last.before
        /\ (last.fetched \/ files # last.before) =>
            (DstFullPath \notin DOMAIN last.before \/ last.args.overwrite = "True")
        /\ (last.ok /\ (DstFullPath \notin DOMAIN last.before \/ last.args.overwrite = "True")) =>
            /\ last.fetched
            /\ files[DstFullPath] =
                   File(urlsafe_b64decode(world.attachments[last.args.attachment.id]).val)

\* A second call with overwrite=False found the file that the call before it
\* had written, and returned its path without fetching.
C20_Witness ==
    /\ last.op = "download_attachment"
    /\ calls = MaxDownloads
    /\ last.args.overwrite = "False"
    /\ DstFullPath \in DOMAIN last.before
    /\ last.before[DstFullPath] = File(<<65, 66>>)
    /\ last.ok /\ ~last.fetched
    /\ files = last.before

----
\* More claims about credentials() (checked under Spec and SpecOAuth).

\* What the OAuth path of the step finds when it starts: a non-empty value of
\* the secret under the OAuth credentials key in the Secret Manager it opened,
\* and the local cache file.
SecretValueBefore ==
    LET versions == SecretVersions(secrets, last'.smProject, DEFAULT_OAUTH_CREDENTIALS_KEY)
    IN  IF versions # <<>> /\ versions[Len(versions)].state = "ENABLED"
           /\ JsonTruthy(versions[Len(versions)].data)
        THEN versions[Len(versions)].data ELSE JsonNone

LocalFileBefore == LocalPath \in DOMAIN files

\* The step returned credentials read from the place ("secret" or "local").
ReturnedFrom(place) == last'.res.ok /\ last'.res.val.id = <<last'.n, "self", place>>

\* C21: with ignore_cached_oauth_credentials=False the OAuth path looks the
\* cached credentials up in a fixed order: a non-empty value of the secret is
\* returned, the local file not being looked at; the credentials of the local
\* file are returned only if the secret has no such value, and are returned
\* then unless the lookup in Secret Manager raised; the flow is started only
\* if neither exists.  A call that returns cached credentials starts no flow
\* and writes neither cache.
C21_CachedLookupOrder ==
    [][(CallStep /\ ~self.ignore_cached_oauth_credentials /\ Done("secrets.get")) =>
        /\ SecretValueBefore # JsonNone =>
            /\ ReturnedFrom("secret")
            /\ last'.res.val.token = SecretValueBefore.token
            /\ ~Done("local.exists")
        /\ ReturnedFrom("local") =>
            /\ SecretValueBefore = JsonNone
            /\ LocalFileBefore
            /\ last'.res.val.token = files[LocalPath].token
        /\ (SecretValueBefore = JsonNone /\ LocalFileBefore /\ Done("local.exists")) =>
            ReturnedFrom("local")
        /\ (Done("isatty") \/ Done("flow")) =>
            /\ SecretValueBefore = JsonNone
            /\ ~LocalFileBefore
        /\ (ReturnedFrom("secret") \/ ReturnedFrom("local")) =>
            /\ ~Done("isatty") /\ ~Done("flow")
            /\ ~Done("secrets.set") /\ ~Done("local.write")
            /\ secrets' = secrets
            /\ files' = files]_vars

\* The secret exists but its value is the empty string, and the credentials
\* of the local file were returned without a flow.
C21_Witness ==
    /\ last.op = "credentials"
    /\ ~self.ignore_cached_oauth_credentials
    /\ last.res.ok
    /\ last.res.val.id = ObjectOf("local")
    /\ last.res.val.token = InfoLocal.token
    /\ SecretVersions(secrets, last.smProject, DEFAULT_OAUTH_CREDENTIALS_KEY)
           = <<[data |-> JsonEmpty, state |-> "ENABLED"]>>
    /\ ~Did("flow")

----
\* More claims about Drive.

\* The number of components of the path looked at from the one at index on,
\* up to and including the first that is not exactly one entry.
RECURSIVE LookedAt(_, _, _, _, _)
LookedAt(d, path, index, parent_id, in_trash) ==
    IF index > Len(path.parts) THEN 0
    ELSE LET found == Candidates(d, parent_id, path.parts[index],
                                 index = Len(path.parts), in_trash)
         IN  IF Cardinality(found) # 1 THEN 1
             ELSE 1 + LookedAt(d, path, index + 1, CHOOSE i \in found : TRUE, in_trash)

C23_WitnessFalse ==
    /\ last.op = "exists"
    /\ Len(last.args.path.parts) = 2
    /\ last.ok
    /\ last.val = FALSE
    /\ Len(Requests("files.list")) = 1

\* C24: the credentials object that credentials(scopes=S) returns carries
\* every scope of S, whichever source it came from.
C24_ReturnedCarryRequestedScopes ==
    (last.op = "credentials" /\ last.res.ok /\ last.scopes # None) =>
        Range(last.scopes) \subseteq GetattrScopes(last.res.val)

\* C25: with oauth_user_email set, credentials obtained through the OAuth path
\* are returned only after they were verified to belong to that user, cached
\* ones included.
C25_OAuthCredentialsAreVerified ==
    (/\ last.op = "credentials"
     /\ last.res.ok
     /\ Did("missing_scopes")
     /\ Truthy(self.oauth_user_email)) =>
        /\ Did("verify_email")
        /\ last.email = self.oauth_user_email

\* C26: the Secret Manager that the OAuth path opens is that of the project ID
\* for which the call resolves credentials: of the organization and the
\* project that the call arguments, the constructor and pyproject.toml yield.
C26_SecretManagerOfTheResolvedProject ==
    (last.op = "credentials" /\ Did("SecretManager")) =>
        last.smProject = RequestProjectId(last.organization, last.project)

\* C27: the in-memory cache changes only on success: a call that raises
\* leaves it exactly as it was, and a call that returns leaves it with the
\* returned object under the key (organization ID, project, scopes) of the
\* call and with every other entry as it was.
C27_CacheChangesOnlyOnSuccess ==
    [][CallStep =>
        IF last'.res.ok
        THEN selfCredentials' = (last'.key :> last'.res.val) @@ selfCredentials
        ELSE selfCredentials' = selfCredentials]_vars

\* A call that raised, made on a manager that had cached the credentials of
\* an earlier call.
C27_Witness ==
    /\ last.op = "credentials"
    /\ ~last.res.ok
    /\ Did("missing_scopes")
    /\ selfCredentials # <<>>
    /\ last.key \notin DOMAIN selfCredentials

----
\* Two writers on one secret (stormware/google/secrets.py:69-111).  Each writer
\* is a SecretManager with destroy_old_versions=True that runs
\* secrets[key] = value once; the requests of the two to the service
\* interleave.  self gives, per writer, its position (pc) in __setitem__,
\* the index of the version it added (latest_version) and the versions its
\* list_secret_versions request answered that it goes on to destroy (listed).

Writers == {1, 2}

WritersKey == <<"k">>

\* The value each writer sets.
WriterValue(w) == SecretValue(w)

InitWriters ==
    /\ self = [w \in Writers |-> [project_id |-> SecretsProject, destroy_old_versions |-> TRUE,
                                  pc |-> "get", latest_version |-> 0, listed |-> <<>>]]
    /\ secrets \in {SecretsProject :> (WritersKey :> versions) : versions \in InitialVersions}
    /\ world \in [missing : {"PermissionDenied", "NotFound"}]
    /\ pyproject = <<>>
    /\ selfCredentials = <<>>
    /\ files = <<>>
    /\ clients = <<>>
    /\ drive = <<>>
    /\ calls = 0
    /\ returned = <<>>
    /\ last = [op |-> "init"]

WriterStep(w, step, pc) ==
    /\ last' = [op |-> step, writer |-> w]
    /\ self' = [self EXCEPT ![w].pc = pc]
    /\ UNCHANGED <<pyproject, selfCredentials, files, clients, drive, world, calls, returned>>

\* The versions at the indices, newest first, as list_secret_versions gives them.
RECURSIVE NewestFirst(_, _)
NewestFirst(n, keep) ==
    IF n = 0 THEN <<>>
    ELSE (IF n \in keep THEN <<n>> ELSE <<>>) \o NewestFirst(n - 1, keep)

\* if self.get(key) == value: return (secrets.py:95-97)
WriterGet(w) ==
    /\ self[w].pc = "get"
    /\ \E current \in {get(secrets, self[w].project_id, WritersKey, JsonNone, world)} :
        WriterStep(w, "get", IF ~current.ok THEN "raised"
                             ELSE IF SameValue(current.val, WriterValue(w)) THEN "returned"
                             ELSE "add")
    /\ secrets' = secrets

\* latest_version = self.client.add_secret_version(...) (secrets.py:101-107)
WriterAdd(w) ==
    /\ self[w].pc = "add"
    /\ \E added \in {Append(SecretVersions(secrets, self[w].project_id, WritersKey),
                            Version(WriterValue(w), "ENABLED"))} :
        /\ secrets' = WithVersions(secrets, self[w].project_id, WritersKey, added)
        /\ last' = [op |-> "add", writer |-> w]
        /\ self' = [self EXCEPT ![w].pc = "list", ![w].latest_version = Len(added)]
    /\ UNCHANGED <<pyproject, selfCredentials, files, clients, drive, world, calls, returned>>

\* self.client.list_secret_versions(parent=name) and the test of the loop on
\* what it answered (secrets.py:74-78)
WriterList(w) ==
    /\ self[w].pc = "list"
    /\ \E versions \in {SecretVersions(secrets, self[w].project_id, WritersKey)} :
       \E listed \in {NewestFirst(Len(versions),
                                  {i \in DOMAIN versions : /\ i # self[w].latest_version
                                                           /\ versions[i].state # "DESTROYED"})} :
        /\ last' = [op |-> "list", writer |-> w]
        /\ self' = [self EXCEPT ![w].listed = listed,
                                ![w].pc = IF listed = <<>> THEN "returned" ELSE "destroy"]
    /\ UNCHANGED <<secrets, pyproject, selfCredentials, files, clients, drive, world, calls,
                   returned>>

\* self.client.destroy_secret_version(name=secret_version.name) (secrets.py:83)
WriterDestroy(w) ==
    /\ self[w].pc = "destroy"
    /\ \E versions \in {SecretVersions(secrets, self[w].project_id, WritersKey)},
          i \in {Head(self[w].listed)} :
        /\ secrets' = WithVersions(secrets, self[w].project_id, WritersKey,
                                   [versions EXCEPT ![i].state = "DESTROYED"])
        /\ last' = [op |-> "destroy", writer |-> w]
        /\ self' = [self EXCEPT ![w].listed = Tail(@),
                                ![w].pc = IF Tail(self[w].listed) = <<>> THEN "returned"
                                          ELSE "destroy"]
    /\ UNCHANGED <<pyproject, selfCredentials, files, clients, drive, world, calls, returned>>

\* The same request for a version the other writer has destroyed since it was
\* listed, where the service refuses it: the exception ends __setitem__.
WriterDestroyRefused(w) ==
    /\ self[w].pc = "destroy"
    /\ SecretVersions(secrets, self[w].project_id, WritersKey)[Head(self[w].listed)].state
           = "DESTROYED"
    /\ WriterStep(w, "destroy", "raised")
    /\ secrets' = secrets

NextWriters ==
    \/ \E w \in Writers : WriterGet(w)
    \/ \E w \in Writers : WriterAdd(w)
    \/ \E w \in Writers : WriterList(w)
    \/ \E w \in Writers : WriterDestroy(w)
    \/ \E w \in Writers : WriterDestroyRefused(w)

SpecWriters == InitWriters /\ [][NextWriters]_vars

\* Both writers have finished, and both added their version.
BothWrote ==
    \A w \in Writers : self[w].pc \in {"returned", "raised"} /\ self[w].latest_version # 0

\* C28: once two writers that set the same secret to different values with
\* destroy_old_versions=True have both finished, having interleaved their
\* add, list and destroy requests in any way, the latest version of the
\* secret is not DESTROYED and holds one of the two values.
C28_LatestSurvivesConcurrentWrites ==
    BothWrote =>
        LET versions == SecretVersions(secrets, SecretsProject, WritersKey)
        IN  /\ versions[Len(versions)].state = "ENABLED"
            /\ versions[Len(versions)].data \in {WriterValue(w) : w \in Writers}

\* C30: an upload with overwrite=False that fails with the 'already exists'
\* error leaves the drive exactly as it was before the call: no folder
\* created, no file uploaded, nothing moved to the trash; for a single file
\* and for a directory tree alike.
C30_FailedUploadLeavesDriveUnchanged ==
    (/\ last.op = "upload"
     /\ ~last.ok
     /\ last.err = "RuntimeError: File already exists") =>
        drive = last.before

====
